---- MODULE Spec2Model ----
(***************************************************************************)
(* Model of rpc/rpc-wrappers.go: the RPC wrappers around the four          *)
(* authorities (RA, VA, CA, SA).  Every server-side handler registered     *)
(* with RPCServer.Handle and every client-side stub method is translated   *)
(* from its code.  One call at a time walks the ladder                     *)
(*   stub (encode) -> DispatchSync -> handler -> DispatchSync -> stub.     *)
(***************************************************************************)
EXTENDS Integers, Sequences, FiniteSets, TLC

(***************************************************************************)
(* Bounds of the model.                                                    *)
(***************************************************************************)
\* number of stub calls and directly delivered messages of one behaviour
MaxCalls == 2

(***************************************************************************)
(* Operation names (rpc-wrappers.go:36-59).                                *)
(***************************************************************************)
MethodNewRegistration == "NewRegistration"
MethodNewAuthorization == "NewAuthorization"
MethodNewCertificate == "NewCertificate"
MethodUpdateRegistration == "UpdateRegistration"
MethodUpdateAuthorization == "UpdateAuthorization"
MethodRevokeCertificate == "RevokeCertificate"
MethodOnValidationUpdate == "OnValidationUpdate"
MethodUpdateValidations == "UpdateValidations"
MethodIssueCertificate == "IssueCertificate"
MethodGenerateOCSP == "GenerateOCSP"
MethodGetRegistration == "GetRegistration"
MethodGetRegistrationByKey == "GetRegistrationByKey"
MethodGetAuthorization == "GetAuthorization"
MethodGetCertificate == "GetCertificate"
MethodGetCertificateByShortSerial == "GetCertificateByShortSerial"
MethodGetCertificateStatus == "GetCertificateStatus"
MethodMarkCertificateRevoked == "MarkCertificateRevoked"
MethodNewPendingAuthorization == "NewPendingAuthorization"
MethodUpdatePendingAuthorization == "UpdatePendingAuthorization"
MethodFinalizeAuthorization == "FinalizeAuthorization"
MethodAddCertificate == "AddCertificate"
MethodAlreadyDeniedCSR == "AlreadyDeniedCSR"

(***************************************************************************)
(* Go error values.  An error is the sequence of the words of its message; *)
(* the nil error is the empty sequence.                                    *)
(***************************************************************************)
Nil == <<>>
\* errors.New(msg): msg is given as its words, the first one the leading word
ErrorsNew(words) == words
\* database/sql.ErrNoRows
ErrNoRows == <<"sql: no rows in result set">>
\* any other error of a domain implementation
DomainErr == <<"domain implementation rejected the request">>
\* errors of encoding/json and crypto/x509
JsonSyntaxErr == <<"json: syntax error">>
JsonTypeErr == <<"json: cannot unmarshal value into Go field">>
JsonMarshalErr == <<"json: error calling MarshalJSON">>
X509Err == <<"asn1: structure error">>

(***************************************************************************)
(* Byte strings.  A byte string ([]byte, or a Go string used as an         *)
(* identifier) is either a JSON text, kept by its structure, or any other  *)
(* byte sequence ("raw": none of the raw sequences of the model is a JSON  *)
(* text).  A JSON text keeps its members (obj) and the JSON type of each   *)
(* member (jtype).                                                         *)
(***************************************************************************)
Raw(bs) == [kind |-> "raw", bytes |-> bs, jtype |-> <<>>, obj |-> <<>>]
Json(o, t) == [kind |-> "json", bytes |-> <<>>, jtype |-> t, obj |-> o]
Empty == Raw(<<>>)
\* len(b) == 0: a JSON text has at least the two bytes of "{}"
IsEmpty(b) == b.kind = "raw" /\ b.bytes = <<>>

\* a result of a library call or of a domain method: (value, error)
Res(v, e) == [val |-> v, err |-> e]

(***************************************************************************)
(* encoding/json.  A struct type is given by its shape: the zero value of  *)
(* each field and the JSON type each field marshals to.  Marshal writes    *)
(* every field under its name; Unmarshal reads the members whose names are *)
(* fields, leaves the other fields zero, ignores unknown members, and      *)
(* fails on a text that is not JSON or on a member of the wrong type.      *)
(* merr is the error of a MarshalJSON/MarshalText method called on the     *)
(* way (nil for the types that have none and cannot fail).                 *)
(***************************************************************************)
Shape(z, t) == [zero |-> z, jtype |-> t]

JsonMarshal(v, shape, merr) ==
    IF merr # Nil THEN Res(Empty, merr)
    ELSE Res(Json(v, shape.jtype), Nil)

JsonUnmarshal(data, shape) ==
    IF data.kind # "json" THEN Res(shape.zero, JsonSyntaxErr)
    ELSE IF \E f \in DOMAIN shape.zero \cap DOMAIN data.obj :
                data.jtype[f] # shape.jtype[f]
         THEN Res(shape.zero, JsonTypeErr)
    ELSE Res([f \in DOMAIN shape.zero |->
                 IF f \in DOMAIN data.obj THEN data.obj[f] ELSE shape.zero[f]],
             Nil)

(***************************************************************************)
(* crypto/x509.  A DER certificate or certificate request is modelled as   *)
(* the two bytes <<DerTag, n>>: the SEQUENCE tag and one content byte.     *)
(* ParseCertificates reads a concatenation of certificates (none, for the  *)
(* empty input, without an error); ParseCertificateRequest reads exactly   *)
(* one request and fails on everything else.  A JSON text is not DER.      *)
(***************************************************************************)
DerTag == 48

RECURSIVE ParseDerSeq(_)
ParseDerSeq(bs) ==
    IF bs = <<>> THEN Res(<<>>, Nil)
    ELSE IF Len(bs) >= 2 /\ bs[1] = DerTag
         THEN LET rest == ParseDerSeq(SubSeq(bs, 3, Len(bs))) IN
              IF rest.err # Nil THEN Res(<<>>, rest.err)
              ELSE Res(<<[Raw |-> SubSeq(bs, 1, 2), SerialNumber |-> bs[2]]>>
                          \o rest.val, Nil)
         ELSE Res(<<>>, X509Err)

\* x509.ParseCertificates(asn1Data []byte) ([]*Certificate, error)
ParseCertificates(data) ==
    IF data.kind # "raw" THEN Res(<<>>, X509Err) ELSE ParseDerSeq(data.bytes)

ZeroCSR == [Raw |-> <<>>, Subject |-> 0]

\* x509.ParseCertificateRequest(asn1Data []byte) (*CertificateRequest, error)
ParseCertificateRequest(bs) ==
    IF Len(bs) = 2 /\ bs[1] = DerTag
    THEN Res([Raw |-> bs, Subject |-> bs[2]], Nil)
    ELSE Res(ZeroCSR, X509Err)

(***************************************************************************)
(* The domain value objects (package core, jose, x509, time), each with    *)
(* its zero value, its JSON shape and the values the model draws from.     *)
(* Only the fields that tell two values apart are kept.                    *)
(***************************************************************************)
\* jose.JsonWebKey
ZeroKey == [kty |-> "", n |-> ""]
KeyShape == Shape(ZeroKey, [kty |-> "string", n |-> "string"])
Keys == {[kty |-> "RSA", n |-> "n1"], [kty |-> "RSA", n |-> "n2"]}

\* core.Registration
ZeroReg == [ID |-> 0, Key |-> ZeroKey]
RegistrationShape == Shape(ZeroReg, [ID |-> "number", Key |-> "object"])
Regs == {[ID |-> 1, Key |-> [kty |-> "RSA", n |-> "n1"]],
         [ID |-> 2, Key |-> [kty |-> "RSA", n |-> "n2"]]}

\* core.Challenge
ZeroChal == [Type |-> "", Token |-> ""]
Chals == {[Type |-> "dvsni", Token |-> "t1"]}

\* core.Authorization
ZeroAuthz == [ID |-> "", Status |-> "", Challenges |-> <<>>]
AuthorizationShape ==
    Shape(ZeroAuthz, [ID |-> "string", Status |-> "string", Challenges |-> "array"])
Authzs == {[ID |-> "a1", Status |-> "pending",
            Challenges |-> <<[Type |-> "dvsni", Token |-> "t1"]>>],
           [ID |-> "a2", Status |-> "valid", Challenges |-> <<>>]}

\* core.CertificateRequest
ZeroCertReq == [CSR |-> <<>>]
CertReqs == {[CSR |-> <<DerTag, 1>>], [CSR |-> <<DerTag, 2>>]}

\* core.Certificate
ZeroCert == [Serial |-> "", DER |-> <<>>]
CertificateShape == Shape(ZeroCert, [Serial |-> "string", DER |-> "bytes"])
CoreCerts == {[Serial |-> "s1", DER |-> <<DerTag, 1>>],
              [Serial |-> "s2", DER |-> <<DerTag, 2>>]}

\* core.CertificateStatus
ZeroStatus == [Serial |-> "", Status |-> ""]
CertificateStatusShape == Shape(ZeroStatus, [Serial |-> "string", Status |-> "string"])
Statuses == {[Serial |-> "s1", Status |-> "good"],
             [Serial |-> "s2", Status |-> "revoked"]}

\* core.OCSPSigningRequest
ZeroOCSPReq == [CertDER |-> <<>>, Status |-> "", Reason |-> 0]
OCSPSigningRequestShape ==
    Shape(ZeroOCSPReq, [CertDER |-> "bytes", Status |-> "string", Reason |-> "number"])
OCSPReqs == {[CertDER |-> <<DerTag, 1>>, Status |-> "good", Reason |-> 0],
             [CertDER |-> <<DerTag, 2>>, Status |-> "revoked", Reason |-> 1]}

\* x509.Certificate and x509.CertificateRequest, as the parsers build them
X509Certs == {ParseDerSeq(<<DerTag, n>>).val[1] : n \in {1, 2}}
X509CSRs == {ParseCertificateRequest(<<DerTag, n>>).val : n \in {1, 2}}

\* time.Time: the zero time and one later instant
ZeroTime == 0
Times == {ZeroTime, 5}

\* int64 registration ids, challenge indexes, reason codes, serials, names
RegIDs == {1, 2}
Indexes == {0, 1}
ReasonCodes == {0, 1}
Serials == {"s1", "s2"}
NameLists == {<<>>, <<"example.com">>}
\* identifiers and raw contents passed as bytes (Go strings and []byte)
RawIDs == {Raw(<<97>>), Raw(<<98>>)}
RawBlobs == {Empty, Raw(<<DerTag, 1>>), Raw(<<DerTag, 2>>)}
\* a method without a result value
NoValue == [void |-> TRUE]

(***************************************************************************)
(* Request envelopes (the struct types the handlers and stubs declare).    *)
(***************************************************************************)
\* type registrationRequest struct { Reg core.Registration }
registrationRequest == Shape([Reg |-> ZeroReg], [Reg |-> "object"])
\* type authorizationRequest struct { Authz core.Authorization; RegID int64 }
authorizationRequest ==
    Shape([Authz |-> ZeroAuthz, RegID |-> 0], [Authz |-> "object", RegID |-> "number"])
\* type certificateRequest struct { Req core.CertificateRequest; RegID int64 }
certificateRequest ==
    Shape([Req |-> ZeroCertReq, RegID |-> 0], [Req |-> "object", RegID |-> "number"])
\* struct { Base, Update core.Registration }
updateRegistrationRequest ==
    Shape([Base |-> ZeroReg, Update |-> ZeroReg], [Base |-> "object", Update |-> "object"])
\* struct { Authz core.Authorization; Index int; Response core.Challenge }
updateAuthorizationRequest ==
    Shape([Authz |-> ZeroAuthz, Index |-> 0, Response |-> ZeroChal],
          [Authz |-> "object", Index |-> "number", Response |-> "object"])
\* struct { Authz core.Authorization; Index int }
vaReqShape ==
    Shape([Authz |-> ZeroAuthz, Index |-> 0], [Authz |-> "object", Index |-> "number"])
\* struct { Bytes []byte; RegID int64; EarliestExpiry time.Time }
icReqShape ==
    Shape([Bytes |-> <<>>, RegID |-> 0, EarliestExpiry |-> ZeroTime],
          [Bytes |-> "bytes", RegID |-> "number", EarliestExpiry |-> "time"])
\* struct { Serial string; ReasonCode int }
revokeReqShape ==
    Shape([Serial |-> "", ReasonCode |-> 0], [Serial |-> "string", ReasonCode |-> "number"])
\* struct { ID int64 }
intReqShape == Shape([ID |-> 0], [ID |-> "number"])
\* struct { Bytes []byte; RegID int64 }
addCertReqShape ==
    Shape([Bytes |-> <<>>, RegID |-> 0], [Bytes |-> "bytes", RegID |-> "number"])
\* struct { Serial string; OCSPResponse []byte; ReasonCode int }
markRevokedReqShape ==
    Shape([Serial |-> "", OCSPResponse |-> <<>>, ReasonCode |-> 0],
          [Serial |-> "string", OCSPResponse |-> "bytes", ReasonCode |-> "number"])
\* struct { Names []string }
csrReqShape == Shape([Names |-> <<>>], [Names |-> "array"])

(***************************************************************************)
(* The audit log.  obj is what the caller hands over as data: the raw      *)
(* request bytes, the decoded request, or the value the domain returned.   *)
(***************************************************************************)
RawObj(req) == [form |-> "raw", val |-> req]
DecodedObj(x) == [form |-> "decoded", val |-> x]
ResultObj(x) == [form |-> "result", val |-> x]

improperMessage(method, err, obj) ==
    [kind |-> "Improper message", method |-> method, err |-> err, data |-> obj]

errorCondition(method, err, obj) ==
    [kind |-> "Error condition", method |-> method, err |-> err, data |-> obj]

(***************************************************************************)
(* What one run of a handler did.  exit names the return statement taken:  *)
(* "decode" after a request that did not decode, "domain" after an error   *)
(* of the domain method, "notfound" after sql.ErrNoRows in the handler     *)
(* that tells it apart, "encode" after a response that did not encode,     *)
(* "ok" at the end.  audits are the log.Audit calls, calls the invocations *)
(* of the domain implementation, infos the log.Info calls, in order.       *)
(* The domain implementation is the environment: d is what its method      *)
(* returns when called (d.val, d.err) and d.merr is the error json.Marshal *)
(* meets on d.val (nil when it meets none).                                *)
(***************************************************************************)
HRet(exit, response, err, audits, calls, infos) ==
    [exit |-> exit, response |-> response, err |-> err,
     audits |-> audits, calls |-> calls, infos |-> infos]

Invoke(method, args) == [method |-> method, args |-> args]

(***************************************************************************)
(* NewRegistrationAuthorityServer: the handlers of the RA.                 *)
(***************************************************************************)
RAServer_NewRegistration(req, d) ==
    LET rr == JsonUnmarshal(req, registrationRequest)
        call == Invoke("NewRegistration", [reg |-> rr.val.Reg])
        m == JsonMarshal(d.val, RegistrationShape, d.merr)
    IN  IF rr.err # Nil
        THEN HRet("decode", Empty, rr.err,
                  <<improperMessage(MethodNewRegistration, rr.err, RawObj(req))>>,
                  <<>>, <<>>)
        ELSE IF d.err # Nil
        THEN HRet("domain", Empty, d.err,
                  <<errorCondition(MethodNewRegistration, d.err, ResultObj(d.val))>>,
                  <<call>>, <<>>)
        ELSE IF m.err # Nil
        THEN HRet("encode", m.val, m.err,
                  <<errorCondition(MethodNewRegistration, m.err, RawObj(req))>>,
                  <<call>>, <<>>)
        ELSE HRet("ok", m.val, Nil, <<>>, <<call>>, <<>>)

\* RAServer_NewAuthorization that calls the domain method before it looks
\* at the error of json.Unmarshal
RAServer_NewAuthorization_CallFirst(req, d) ==
    LET ar == JsonUnmarshal(req, authorizationRequest)
        call == Invoke("NewAuthorization",
                       [authz |-> ar.val.Authz, regID |-> ar.val.RegID])
        m == JsonMarshal(d.val, AuthorizationShape, d.merr)
    IN  IF ar.err # Nil
        THEN HRet("decode", Empty, ar.err,
                  <<improperMessage(MethodNewAuthorization, ar.err, RawObj(req))>>,
                  <<call>>, <<>>)
        ELSE IF d.err # Nil
        THEN HRet("domain", Empty, d.err,
                  <<errorCondition(MethodNewAuthorization, d.err, DecodedObj(ar.val))>>,
                  <<call>>, <<>>)
        ELSE IF m.err # Nil
        THEN HRet("encode", m.val, m.err,
                  <<errorCondition(MethodNewAuthorization, m.err, RawObj(req))>>,
                  <<call>>, <<>>)
        ELSE HRet("ok", m.val, Nil, <<>>, <<call>>, <<>>)

RAServer_NewAuthorization(req, d) ==
    LET ar == JsonUnmarshal(req, authorizationRequest)
        call == Invoke("NewAuthorization",
                       [authz |-> ar.val.Authz, regID |-> ar.val.RegID])
        m == JsonMarshal(d.val, AuthorizationShape, d.merr)
    IN  IF ar.err # Nil
        THEN HRet("decode", Empty, ar.err,
                  <<improperMessage(MethodNewAuthorization, ar.err, RawObj(req))>>,
                  <<>>, <<>>)
        ELSE IF d.err # Nil
        THEN HRet("domain", Empty, d.err,
                  <<errorCondition(MethodNewAuthorization, d.err, DecodedObj(ar.val))>>,
                  <<call>>, <<>>)
        ELSE IF m.err # Nil
        THEN HRet("encode", m.val, m.err,
                  <<errorCondition(MethodNewAuthorization, m.err, RawObj(req))>>,
                  <<call>>, <<>>)
        ELSE HRet("ok", m.val, Nil, <<>>, <<call>>, <<>>)

InfoEntering == " [.] Entering MethodNewCertificate"
InfoDecoded == " [.] No problem unmarshaling request"
InfoIssued == " [.] No problem issuing new cert"

\* RAServer_NewCertificate that logs "issued" right after the call of the
\* domain method, before it looks at its error
RAServer_NewCertificate_IssuedEarly(req, d) ==
    LET cr == JsonUnmarshal(req, certificateRequest)
        call == Invoke("NewCertificate", [req |-> cr.val.Req, regID |-> cr.val.RegID])
        m == JsonMarshal(d.val, CertificateShape, d.merr)
    IN  IF cr.err # Nil
        THEN HRet("decode", Empty, cr.err,
                  <<improperMessage(MethodNewCertificate, cr.err, RawObj(req))>>,
                  <<>>, <<InfoEntering>>)
        ELSE IF d.err # Nil
        THEN HRet("domain", Empty, d.err,
                  <<errorCondition(MethodNewCertificate, d.err, DecodedObj(cr.val))>>,
                  <<call>>, <<InfoEntering, InfoDecoded, InfoIssued>>)
        ELSE IF m.err # Nil
        THEN HRet("encode", m.val, m.err,
                  <<errorCondition(MethodNewCertificate, m.err, RawObj(req))>>,
                  <<call>>, <<InfoEntering, InfoDecoded, InfoIssued>>)
        ELSE HRet("ok", m.val, Nil, <<>>, <<call>>,
                  <<InfoEntering, InfoDecoded, InfoIssued>>)

RAServer_NewCertificate(req, d) ==
    LET cr == JsonUnmarshal(req, certificateRequest)
        call == Invoke("NewCertificate", [req |-> cr.val.Req, regID |-> cr.val.RegID])
        m == JsonMarshal(d.val, CertificateShape, d.merr)
    IN  IF cr.err # Nil
        THEN HRet("decode", Empty, cr.err,
                  <<improperMessage(MethodNewCertificate, cr.err, RawObj(req))>>,
                  <<>>, <<InfoEntering>>)
        ELSE IF d.err # Nil
        THEN HRet("domain", Empty, d.err,
                  <<errorCondition(MethodNewCertificate, d.err, DecodedObj(cr.val))>>,
                  <<call>>, <<InfoEntering, InfoDecoded>>)
        ELSE IF m.err # Nil
        THEN HRet("encode", m.val, m.err,
                  <<errorCondition(MethodNewCertificate, m.err, RawObj(req))>>,
                  <<call>>, <<InfoEntering, InfoDecoded, InfoIssued>>)
        ELSE HRet("ok", m.val, Nil, <<>>, <<call>>,
                  <<InfoEntering, InfoDecoded, InfoIssued>>)

RAServer_UpdateRegistration(req, d) ==
    LET request == JsonUnmarshal(req, updateRegistrationRequest)
        call == Invoke("UpdateRegistration",
                       [base |-> request.val.Base, update |-> request.val.Update])
        m == JsonMarshal(d.val, RegistrationShape, d.merr)
    IN  IF request.err # Nil
        THEN HRet("decode", Empty, request.err,
                  <<improperMessage(MethodUpdateRegistration, request.err, RawObj(req))>>,
                  <<>>, <<>>)
        ELSE IF d.err # Nil
        THEN HRet("domain", Empty, d.err,
                  <<errorCondition(MethodUpdateRegistration, d.err,
                                   DecodedObj(request.val))>>,
                  <<call>>, <<>>)
        ELSE IF m.err # Nil
        THEN HRet("encode", m.val, m.err,
                  <<errorCondition(MethodUpdateRegistration, m.err, RawObj(req))>>,
                  <<call>>, <<>>)
        ELSE HRet("ok", m.val, Nil, <<>>, <<call>>, <<>>)

RAServer_UpdateAuthorization(req, d) ==
    LET authz == JsonUnmarshal(req, updateAuthorizationRequest)
        call == Invoke("UpdateAuthorization",
                       [authz |-> authz.val.Authz, index |-> authz.val.Index,
                        response |-> authz.val.Response])
        m == JsonMarshal(d.val, AuthorizationShape, d.merr)
    IN  IF authz.err # Nil
        THEN HRet("decode", Empty, authz.err,
                  <<improperMessage(MethodUpdateAuthorization, authz.err, RawObj(req))>>,
                  <<>>, <<>>)
        ELSE IF d.err # Nil
        THEN HRet("domain", Empty, d.err,
                  <<errorCondition(MethodUpdateAuthorization, d.err,
                                   DecodedObj(authz.val))>>,
                  <<call>>, <<>>)
        ELSE IF m.err # Nil
        THEN HRet("encode", m.val, m.err,
                  <<errorCondition(MethodUpdateAuthorization, m.err, RawObj(req))>>,
                  <<call>>, <<>>)
        ELSE HRet("ok", m.val, Nil, <<>>, <<call>>, <<>>)

\* the request is the raw DER certificate; err is the parser's, also when no
\* certificate was found (then nil), and is what the handler returns
RAServer_RevokeCertificate(req, d) ==
    LET certs == ParseCertificates(req)
        call == Invoke("RevokeCertificate", [cert |-> certs.val[1]])
    IN  IF certs.err # Nil \/ Len(certs.val) = 0
        THEN HRet("decode", Empty, certs.err,
                  <<improperMessage(MethodRevokeCertificate, certs.err, RawObj(req))>>,
                  <<>>, <<>>)
        ELSE IF d.err # Nil
        THEN HRet("domain", Empty, d.err,
                  <<errorCondition(MethodRevokeCertificate, d.err,
                                   DecodedObj(certs.val))>>,
                  <<call>>, <<>>)
        ELSE HRet("ok", Empty, Nil, <<>>, <<call>>, <<>>)

\* RAServer_OnValidationUpdate without the errorCondition call after an error
\* of the domain method
RAServer_OnValidationUpdate_NoAudit(req, d) ==
    LET authz == JsonUnmarshal(req, AuthorizationShape)
        call == Invoke("OnValidationUpdate", [authz |-> authz.val])
    IN  IF authz.err # Nil
        THEN HRet("decode", Empty, authz.err,
                  <<improperMessage(MethodOnValidationUpdate, authz.err, RawObj(req))>>,
                  <<>>, <<>>)
        ELSE IF d.err # Nil
        THEN HRet("domain", Empty, d.err, <<>>, <<call>>, <<>>)
        ELSE HRet("ok", Empty, Nil, <<>>, <<call>>, <<>>)

RAServer_OnValidationUpdate(req, d) ==
    LET authz == JsonUnmarshal(req, AuthorizationShape)
        call == Invoke("OnValidationUpdate", [authz |-> authz.val])
    IN  IF authz.err # Nil
        THEN HRet("decode", Empty, authz.err,
                  <<improperMessage(MethodOnValidationUpdate, authz.err, RawObj(req))>>,
                  <<>>, <<>>)
        ELSE IF d.err # Nil
        THEN HRet("domain", Empty, d.err,
                  <<errorCondition(MethodOnValidationUpdate, d.err,
                                   DecodedObj(authz.val))>>,
                  <<call>>, <<>>)
        ELSE HRet("ok", Empty, Nil, <<>>, <<call>>, <<>>)

(***************************************************************************)
(* NewValidationAuthorityServer: the handler of the VA.                    *)
(***************************************************************************)
VAServer_UpdateValidations(req, d) ==
    LET vaReq == JsonUnmarshal(req, vaReqShape)
        call == Invoke("UpdateValidations",
                       [authz |-> vaReq.val.Authz, index |-> vaReq.val.Index])
    IN  IF vaReq.err # Nil
        THEN HRet("decode", Empty, vaReq.err,
                  <<improperMessage(MethodUpdateValidations, vaReq.err, RawObj(req))>>,
                  <<>>, <<>>)
        ELSE IF d.err # Nil
        THEN HRet("domain", Empty, d.err,
                  <<errorCondition(MethodUpdateValidations, d.err,
                                   DecodedObj(vaReq.val))>>,
                  <<call>>, <<>>)
        ELSE HRet("ok", Empty, Nil, <<>>, <<call>>, <<>>)

(***************************************************************************)
(* NewCertificateAuthorityServer: the handlers of the CA.                  *)
(***************************************************************************)
\* CAServer_IssueCertificate that calls the domain method a second time
\* when the first call returned an error
CAServer_IssueCertificate_Retry(req, d) ==
    LET icReq == JsonUnmarshal(req, icReqShape)
        csr == ParseCertificateRequest(icReq.val.Bytes)
        call == Invoke("IssueCertificate",
                       [csr |-> csr.val, regID |-> icReq.val.RegID,
                        earliestExpiry |-> icReq.val.EarliestExpiry])
        m == JsonMarshal(d.val, CertificateShape, d.merr)
    IN  IF icReq.err # Nil
        THEN HRet("decode", Empty, icReq.err,
                  <<improperMessage(MethodIssueCertificate, icReq.err, RawObj(req))>>,
                  <<>>, <<>>)
        ELSE IF csr.err # Nil
        THEN HRet("decode", Empty, csr.err,
                  <<improperMessage(MethodIssueCertificate, csr.err, RawObj(req))>>,
                  <<>>, <<>>)
        ELSE IF d.err # Nil
        THEN HRet("domain", Empty, d.err,
                  <<errorCondition(MethodIssueCertificate, d.err, DecodedObj(csr.val))>>,
                  <<call, call>>, <<>>)
        ELSE IF m.err # Nil
        THEN HRet("encode", m.val, m.err,
                  <<errorCondition(MethodGetRegistration, m.err, RawObj(req))>>,
                  <<call>>, <<>>)
        ELSE HRet("ok", m.val, Nil, <<>>, <<call>>, <<>>)

\* CAServer_IssueCertificate without the second decoding step: whatever
\* x509.ParseCertificateRequest returned is handed to the domain method
CAServer_IssueCertificate_NoCsrCheck(req, d) ==
    LET icReq == JsonUnmarshal(req, icReqShape)
        csr == ParseCertificateRequest(icReq.val.Bytes)
        call == Invoke("IssueCertificate",
                       [csr |-> csr.val, regID |-> icReq.val.RegID,
                        earliestExpiry |-> icReq.val.EarliestExpiry])
        m == JsonMarshal(d.val, CertificateShape, d.merr)
    IN  IF icReq.err # Nil
        THEN HRet("decode", Empty, icReq.err,
                  <<improperMessage(MethodIssueCertificate, icReq.err, RawObj(req))>>,
                  <<>>, <<>>)
        ELSE IF d.err # Nil
        THEN HRet("domain", Empty, d.err,
                  <<errorCondition(MethodIssueCertificate, d.err, DecodedObj(csr.val))>>,
                  <<call>>, <<>>)
        ELSE IF m.err # Nil
        THEN HRet("encode", m.val, m.err,
                  <<errorCondition(MethodGetRegistration, m.err, RawObj(req))>>,
                  <<call>>, <<>>)
        ELSE HRet("ok", m.val, Nil, <<>>, <<call>>, <<>>)

\* two decoding steps: the envelope, then the CSR bytes inside it
CAServer_IssueCertificate(req, d) ==
    LET icReq == JsonUnmarshal(req, icReqShape)
        csr == ParseCertificateRequest(icReq.val.Bytes)
        call == Invoke("IssueCertificate",
                       [csr |-> csr.val, regID |-> icReq.val.RegID,
                        earliestExpiry |-> icReq.val.EarliestExpiry])
        m == JsonMarshal(d.val, CertificateShape, d.merr)
    IN  IF icReq.err # Nil
        THEN HRet("decode", Empty, icReq.err,
                  <<improperMessage(MethodIssueCertificate, icReq.err, RawObj(req))>>,
                  <<>>, <<>>)
        ELSE IF csr.err # Nil
        THEN HRet("decode", Empty, csr.err,
                  <<improperMessage(MethodIssueCertificate, csr.err, RawObj(req))>>,
                  <<>>, <<>>)
        ELSE IF d.err # Nil
        THEN HRet("domain", Empty, d.err,
                  <<errorCondition(MethodIssueCertificate, d.err, DecodedObj(csr.val))>>,
                  <<call>>, <<>>)
        ELSE IF m.err # Nil
        THEN HRet("encode", m.val, m.err,
                  <<errorCondition(MethodGetRegistration, m.err, RawObj(req))>>,
                  <<call>>, <<>>)
        ELSE HRet("ok", m.val, Nil, <<>>, <<call>>, <<>>)

\* "if err := impl.RevokeCertificate(...); err != nil" declares a new err in
\* the scope of the if statement: the handler's result err keeps the value
\* json.Unmarshal left in it, which is nil here
CAServer_RevokeCertificate(req, d) ==
    LET revokeReq == JsonUnmarshal(req, revokeReqShape)
        call == Invoke("RevokeCertificate",
                       [serial |-> revokeReq.val.Serial,
                        reasonCode |-> revokeReq.val.ReasonCode])
    IN  IF revokeReq.err # Nil
        THEN HRet("decode", Empty, revokeReq.err,
                  <<errorCondition(MethodRevokeCertificate, revokeReq.err, RawObj(req))>>,
                  <<>>, <<>>)
        ELSE IF d.err # Nil
        THEN HRet("domain", Empty, revokeReq.err,
                  <<errorCondition(MethodRevokeCertificate, d.err, RawObj(req))>>,
                  <<call>>, <<>>)
        ELSE HRet("ok", Empty, revokeReq.err, <<>>, <<call>>, <<>>)

\* "response, err = impl.GenerateOCSP(xferObj)": the bytes the domain returns
\* are the handler's response, with or without an error
CAServer_GenerateOCSP(req, d) ==
    LET xferObj == JsonUnmarshal(req, OCSPSigningRequestShape)
        call == Invoke("GenerateOCSP", [signRequest |-> xferObj.val])
    IN  IF xferObj.err # Nil
        THEN HRet("decode", Empty, xferObj.err,
                  <<errorCondition(MethodGenerateOCSP, xferObj.err, RawObj(req))>>,
                  <<>>, <<>>)
        ELSE IF d.err # Nil
        THEN HRet("domain", d.val, d.err,
                  <<errorCondition(MethodGenerateOCSP, d.err, RawObj(req))>>,
                  <<call>>, <<>>)
        ELSE HRet("ok", d.val, Nil, <<>>, <<call>>, <<>>)

(***************************************************************************)
(* NewStorageAuthorityServer: the handlers of the SA.  The handlers whose  *)
(* request is an identifier pass string(req) to the domain method: the     *)
(* same bytes.                                                             *)
(***************************************************************************)
JoseErr == <<"square/go-jose: unknown json web key type">>

\* jose.JsonWebKey.UnmarshalJSON: a key of an unknown type is refused
JsonWebKeyUnmarshal(data) ==
    LET u == JsonUnmarshal(data, KeyShape)
    IN  IF u.err # Nil THEN u
        ELSE IF u.val.kty \notin {"RSA", "EC"} THEN Res(ZeroKey, JoseErr)
        ELSE u

SAServer_UpdateRegistration(req, d) ==
    LET reg == JsonUnmarshal(req, RegistrationShape)
        call == Invoke("UpdateRegistration", [reg |-> reg.val])
    IN  IF reg.err # Nil
        THEN HRet("decode", Empty, reg.err,
                  <<improperMessage(MethodUpdateRegistration, reg.err, RawObj(req))>>,
                  <<>>, <<>>)
        ELSE IF d.err # Nil
        THEN HRet("domain", Empty, d.err,
                  <<errorCondition(MethodUpdateRegistration, d.err, RawObj(req))>>,
                  <<call>>, <<>>)
        ELSE HRet("ok", Empty, Nil, <<>>, <<call>>, <<>>)

SAServer_GetRegistration(req, d) ==
    LET intReq == JsonUnmarshal(req, intReqShape)
        call == Invoke("GetRegistration", [id |-> intReq.val.ID])
        m == JsonMarshal(d.val, RegistrationShape, d.merr)
    IN  IF intReq.err # Nil
        THEN HRet("decode", Empty, intReq.err,
                  <<improperMessage(MethodGetRegistration, intReq.err, RawObj(req))>>,
                  <<>>, <<>>)
        ELSE IF d.err # Nil
        THEN HRet("domain", Empty, d.err,
                  <<errorCondition(MethodGetRegistration, d.err, RawObj(req))>>,
                  <<call>>, <<>>)
        ELSE IF m.err # Nil
        THEN HRet("encode", m.val, m.err,
                  <<errorCondition(MethodGetRegistration, m.err, RawObj(req))>>,
                  <<call>>, <<>>)
        ELSE HRet("ok", m.val, Nil, <<>>, <<call>>, <<>>)

SAServer_GetRegistrationByKey(req, d) ==
    LET jwk == JsonWebKeyUnmarshal(req)
        call == Invoke("GetRegistrationByKey", [key |-> jwk.val])
        m == JsonMarshal(d.val, RegistrationShape, d.merr)
    IN  IF jwk.err # Nil
        THEN HRet("decode", Empty, jwk.err,
                  <<improperMessage(MethodGetRegistrationByKey, jwk.err, RawObj(req))>>,
                  <<>>, <<>>)
        ELSE IF d.err # Nil
        THEN HRet("domain", Empty, d.err,
                  <<errorCondition(MethodGetRegistrationByKey, d.err, DecodedObj(jwk.val))>>,
                  <<call>>, <<>>)
        ELSE IF m.err # Nil
        THEN HRet("encode", m.val, m.err,
                  <<errorCondition(MethodGetRegistrationByKey, m.err, RawObj(req))>>,
                  <<call>>, <<>>)
        ELSE HRet("ok", m.val, Nil, <<>>, <<call>>, <<>>)

SAServer_GetAuthorization(req, d) ==
    LET call == Invoke("GetAuthorization", [id |-> req])
        m == JsonMarshal(d.val, AuthorizationShape, d.merr)
    IN  IF d.err # Nil
        THEN HRet("domain", Empty, d.err,
                  <<errorCondition(MethodGetAuthorization, d.err, RawObj(req))>>,
                  <<call>>, <<>>)
        ELSE IF m.err # Nil
        THEN HRet("encode", m.val, m.err,
                  <<errorCondition(MethodGetAuthorization, m.err, RawObj(req))>>,
                  <<call>>, <<>>)
        ELSE HRet("ok", m.val, Nil, <<>>, <<call>>, <<>>)

\* "response = []byte(id)": the bytes of the identifier the domain returned
SAServer_AddCertificate(req, d) ==
    LET icReq == JsonUnmarshal(req, addCertReqShape)
        call == Invoke("AddCertificate",
                       [cert |-> icReq.val.Bytes, regID |-> icReq.val.RegID])
    IN  IF icReq.err # Nil
        THEN HRet("decode", Empty, icReq.err,
                  <<improperMessage(MethodAddCertificate, icReq.err, RawObj(req))>>,
                  <<>>, <<>>)
        ELSE IF d.err # Nil
        THEN HRet("domain", Empty, d.err,
                  <<errorCondition(MethodAddCertificate, d.err, RawObj(req))>>,
                  <<call>>, <<>>)
        ELSE HRet("ok", d.val, Nil, <<>>, <<call>>, <<>>)

SAServer_NewRegistration(req, d) ==
    LET registration == JsonUnmarshal(req, RegistrationShape)
        call == Invoke("NewRegistration", [reg |-> registration.val])
        m == JsonMarshal(d.val, RegistrationShape, d.merr)
    IN  IF registration.err # Nil
        THEN HRet("decode", Empty, registration.err,
                  <<improperMessage(MethodNewRegistration, registration.err, RawObj(req))>>,
                  <<>>, <<>>)
        ELSE IF d.err # Nil
        THEN HRet("domain", Empty, d.err,
                  <<errorCondition(MethodNewRegistration, d.err, DecodedObj(registration.val))>>,
                  <<call>>, <<>>)
        ELSE IF m.err # Nil
        THEN HRet("encode", m.val, m.err,
                  <<errorCondition(MethodNewRegistration, m.err, RawObj(req))>>,
                  <<call>>, <<>>)
        ELSE HRet("ok", m.val, Nil, <<>>, <<call>>, <<>>)

SAServer_NewPendingAuthorization(req, d) ==
    LET authz == JsonUnmarshal(req, AuthorizationShape)
        call == Invoke("NewPendingAuthorization", [authz |-> authz.val])
        m == JsonMarshal(d.val, AuthorizationShape, d.merr)
    IN  IF authz.err # Nil
        THEN HRet("decode", Empty, authz.err,
                  <<improperMessage(MethodNewPendingAuthorization, authz.err, RawObj(req))>>,
                  <<>>, <<>>)
        ELSE IF d.err # Nil
        THEN HRet("domain", Empty, d.err,
                  <<errorCondition(MethodNewPendingAuthorization, d.err, RawObj(req))>>,
                  <<call>>, <<>>)
        ELSE IF m.err # Nil
        THEN HRet("encode", m.val, m.err,
                  <<errorCondition(MethodNewPendingAuthorization, m.err, RawObj(req))>>,
                  <<call>>, <<>>)
        ELSE HRet("ok", m.val, Nil, <<>>, <<call>>, <<>>)

SAServer_UpdatePendingAuthorization(req, d) ==
    LET authz == JsonUnmarshal(req, AuthorizationShape)
        call == Invoke("UpdatePendingAuthorization", [authz |-> authz.val])
    IN  IF authz.err # Nil
        THEN HRet("decode", Empty, authz.err,
                  <<improperMessage(MethodUpdatePendingAuthorization, authz.err, RawObj(req))>>,
                  <<>>, <<>>)
        ELSE IF d.err # Nil
        THEN HRet("domain", Empty, d.err,
                  <<errorCondition(MethodUpdatePendingAuthorization, d.err, DecodedObj(authz.val))>>,
                  <<call>>, <<>>)
        ELSE HRet("ok", Empty, Nil, <<>>, <<call>>, <<>>)

SAServer_FinalizeAuthorization(req, d) ==
    LET authz == JsonUnmarshal(req, AuthorizationShape)
        call == Invoke("FinalizeAuthorization", [authz |-> authz.val])
    IN  IF authz.err # Nil
        THEN HRet("decode", Empty, authz.err,
                  <<improperMessage(MethodFinalizeAuthorization, authz.err, RawObj(req))>>,
                  <<>>, <<>>)
        ELSE IF d.err # Nil
        THEN HRet("domain", Empty, d.err,
                  <<errorCondition(MethodFinalizeAuthorization, d.err, DecodedObj(authz.val))>>,
                  <<call>>, <<>>)
        ELSE HRet("ok", Empty, Nil, <<>>, <<call>>, <<>>)

SAServer_GetCertificate(req, d) ==
    LET call == Invoke("GetCertificate", [id |-> req])
    IN  IF d.err # Nil
        THEN HRet("domain", Empty, d.err,
                  <<errorCondition(MethodGetCertificate, d.err, RawObj(req))>>,
                  <<call>>, <<>>)
        ELSE HRet("ok", d.val, Nil, <<>>, <<call>>, <<>>)

\* SAServer_GetCertificateByShortSerial without the test for sql.ErrNoRows:
\* every error of the domain method is audited, as in GetCertificate
SAServer_GetCertificateByShortSerial_AuditAll(req, d) ==
    LET call == Invoke("GetCertificateByShortSerial", [id |-> req])
    IN  IF d.err # Nil
        THEN HRet("domain", Empty, d.err,
                  <<errorCondition(MethodGetCertificateByShortSerial, d.err,
                                   RawObj(req))>>,
                  <<call>>, <<>>)
        ELSE HRet("ok", d.val, Nil, <<>>, <<call>>, <<>>)

\* sql.ErrNoRows is returned like every other error, but not audited
SAServer_GetCertificateByShortSerial(req, d) ==
    LET call == Invoke("GetCertificateByShortSerial", [id |-> req])
    IN  IF d.err # Nil
        THEN IF d.err # ErrNoRows
             THEN HRet("domain", Empty, d.err,
                       <<errorCondition(MethodGetCertificateByShortSerial, d.err,
                                        RawObj(req))>>,
                       <<call>>, <<>>)
             ELSE HRet("notfound", Empty, d.err, <<>>, <<call>>, <<>>)
        ELSE HRet("ok", d.val, Nil, <<>>, <<call>>, <<>>)

\* SAServer_GetCertificateStatus that refuses the empty identifier as an
\* improper message
SAServer_GetCertificateStatus_RejectEmpty(req, d) ==
    LET call == Invoke("GetCertificateStatus", [id |-> req])
        m == JsonMarshal(d.val, CertificateStatusShape, d.merr)
    IN  IF IsEmpty(req)
        THEN HRet("decode", Empty, JsonSyntaxErr,
                  <<improperMessage(MethodGetCertificateStatus, JsonSyntaxErr,
                                    RawObj(req))>>,
                  <<>>, <<>>)
        ELSE IF d.err # Nil
        THEN HRet("domain", Empty, d.err,
                  <<errorCondition(MethodGetCertificateStatus, d.err, RawObj(req))>>,
                  <<call>>, <<>>)
        ELSE IF m.err # Nil
        THEN HRet("encode", m.val, m.err,
                  <<errorCondition(MethodGetCertificateStatus, m.err, RawObj(req))>>,
                  <<call>>, <<>>)
        ELSE HRet("ok", m.val, Nil, <<>>, <<call>>, <<>>)

SAServer_GetCertificateStatus(req, d) ==
    LET call == Invoke("GetCertificateStatus", [id |-> req])
        m == JsonMarshal(d.val, CertificateStatusShape, d.merr)
    IN  IF d.err # Nil
        THEN HRet("domain", Empty, d.err,
                  <<errorCondition(MethodGetCertificateStatus, d.err, RawObj(req))>>,
                  <<call>>, <<>>)
        ELSE IF m.err # Nil
        THEN HRet("encode", m.val, m.err,
                  <<errorCondition(MethodGetCertificateStatus, m.err, RawObj(req))>>,
                  <<call>>, <<>>)
        ELSE HRet("ok", m.val, Nil, <<>>, <<call>>, <<>>)

SAServer_MarkCertificateRevoked(req, d) ==
    LET revokeReq == JsonUnmarshal(req, markRevokedReqShape)
        call == Invoke("MarkCertificateRevoked", [serial |-> revokeReq.val.Serial,
                        ocspResponse |-> revokeReq.val.OCSPResponse,
                        reasonCode |-> revokeReq.val.ReasonCode])
    IN  IF revokeReq.err # Nil
        THEN HRet("decode", Empty, revokeReq.err,
                  <<improperMessage(MethodMarkCertificateRevoked, revokeReq.err, RawObj(req))>>,
                  <<>>, <<>>)
        ELSE IF d.err # Nil
        THEN HRet("domain", Empty, d.err,
                  <<errorCondition(MethodMarkCertificateRevoked, d.err, DecodedObj(revokeReq.val))>>,
                  <<call>>, <<>>)
        ELSE HRet("ok", Empty, Nil, <<>>, <<call>>, <<>>)

\* the result is one byte: 1 when the domain says the CSR was denied, else 0
SAServer_AlreadyDeniedCSR(req, d) ==
    LET csrReq == JsonUnmarshal(req, csrReqShape)
        call == Invoke("AlreadyDeniedCSR", [names |-> csrReq.val.Names])
    IN  IF csrReq.err # Nil
        THEN HRet("decode", Empty, csrReq.err,
                  <<improperMessage(MethodAlreadyDeniedCSR, csrReq.err, RawObj(req))>>,
                  <<>>, <<>>)
        ELSE IF d.err # Nil
        THEN HRet("domain", Empty, d.err,
                  <<errorCondition(MethodAlreadyDeniedCSR, d.err,
                                   DecodedObj(csrReq.val))>>,
                  <<call>>, <<>>)
        ELSE IF d.val
        THEN HRet("ok", Raw(<<1>>), Nil, <<>>, <<call>>, <<>>)
        ELSE HRet("ok", Raw(<<0>>), Nil, <<>>, <<call>>, <<>>)

(***************************************************************************)
(* The stubs.  A stub method runs up to its DispatchSync call, blocks, and *)
(* goes on with what DispatchSync returned.  It is one operator of its     *)
(* arguments, of the error json.Marshal meets on the request (merr: nil    *)
(* when it meets none; not read where the request type cannot fail to      *)
(* encode) and of the reply of DispatchSync (reply.resp, reply.err).  The  *)
(* result names the call made (dispatch: NoDispatch when the method        *)
(* returned before it; it does not depend on reply), the values returned   *)
(* to the caller (val, err) and the audit records written.                 *)
(***************************************************************************)
SRet(val, err, dispatch, audits) ==
    [val |-> val, err |-> err, dispatch |-> dispatch, audits |-> audits]

Dispatch(method, data) == [method |-> method, data |-> data]
NoDispatch == Dispatch("", Empty)

(***************************************************************************)
(* RegistrationAuthorityClient                                             *)
(***************************************************************************)
RAClient_NewRegistration(reg, merr, reply) ==
    LET data == JsonMarshal([Reg |-> reg], registrationRequest, merr)
        sent == Dispatch(MethodNewRegistration, data.val)
        u == JsonUnmarshal(reply.resp, RegistrationShape)
    IN  IF data.err # Nil THEN SRet(ZeroReg, data.err, NoDispatch, <<>>)
        ELSE IF reply.err # Nil \/ IsEmpty(reply.resp)
        THEN SRet(ZeroReg, reply.err, sent, <<>>)
        ELSE SRet(u.val, u.err, sent, <<>>)

RAClient_NewAuthorization(authz, regID, merr, reply) ==
    LET data == JsonMarshal([Authz |-> authz, RegID |-> regID], authorizationRequest, merr)
        sent == Dispatch(MethodNewAuthorization, data.val)
        u == JsonUnmarshal(reply.resp, AuthorizationShape)
    IN  IF data.err # Nil THEN SRet(ZeroAuthz, data.err, NoDispatch, <<>>)
        ELSE IF reply.err # Nil \/ IsEmpty(reply.resp)
        THEN SRet(ZeroAuthz, reply.err, sent, <<>>)
        ELSE SRet(u.val, u.err, sent, <<>>)

RAClient_NewCertificate(cr, regID, merr, reply) ==
    LET data == JsonMarshal([Req |-> cr, RegID |-> regID], certificateRequest, merr)
        sent == Dispatch(MethodNewCertificate, data.val)
        u == JsonUnmarshal(reply.resp, CertificateShape)
    IN  IF data.err # Nil THEN SRet(ZeroCert, data.err, NoDispatch, <<>>)
        ELSE IF reply.err # Nil THEN SRet(ZeroCert, reply.err, sent, <<>>)
        ELSE IF IsEmpty(reply.resp)
        THEN SRet(ZeroCert, ErrorsNew(<<"NewCertificate", "RPC to RA failed.">>),
                  sent, <<>>)
        ELSE SRet(u.val, u.err, sent, <<>>)

\* RAClient_UpdateRegistration that does not decode its response and
\* returns the update it sent
RAClient_UpdateRegistration_NoDecode(base, update, merr, reply) ==
    LET data == JsonMarshal([Base |-> base, Update |-> update], updateRegistrationRequest, merr)
        sent == Dispatch(MethodUpdateRegistration, data.val)
    IN  IF data.err # Nil THEN SRet(ZeroReg, data.err, NoDispatch, <<>>)
        ELSE IF reply.err # Nil \/ IsEmpty(reply.resp)
        THEN SRet(ZeroReg, reply.err, sent, <<>>)
        ELSE SRet(update, Nil, sent, <<>>)

RAClient_UpdateRegistration(base, update, merr, reply) ==
    LET data == JsonMarshal([Base |-> base, Update |-> update], updateRegistrationRequest, merr)
        sent == Dispatch(MethodUpdateRegistration, data.val)
        u == JsonUnmarshal(reply.resp, RegistrationShape)
    IN  IF data.err # Nil THEN SRet(ZeroReg, data.err, NoDispatch, <<>>)
        ELSE IF reply.err # Nil \/ IsEmpty(reply.resp)
        THEN SRet(ZeroReg, reply.err, sent, <<>>)
        ELSE SRet(u.val, u.err, sent, <<>>)

RAClient_UpdateAuthorization(authz, index, response, merr, reply) ==
    LET data == JsonMarshal([Authz |-> authz, Index |-> index, Response |-> response], updateAuthorizationRequest, merr)
        sent == Dispatch(MethodUpdateAuthorization, data.val)
        u == JsonUnmarshal(reply.resp, AuthorizationShape)
    IN  IF data.err # Nil THEN SRet(ZeroAuthz, data.err, NoDispatch, <<>>)
        ELSE IF reply.err # Nil \/ IsEmpty(reply.resp)
        THEN SRet(ZeroAuthz, reply.err, sent, <<>>)
        ELSE SRet(u.val, u.err, sent, <<>>)

\* the request is cert.Raw, as it is
RAClient_RevokeCertificate(cert, merr, reply) ==
    SRet(NoValue, reply.err, Dispatch(MethodRevokeCertificate, Raw(cert.Raw)), <<>>)

RAClient_OnValidationUpdate(authz, merr, reply) ==
    LET data == JsonMarshal(authz, AuthorizationShape, merr)
        sent == Dispatch(MethodOnValidationUpdate, data.val)
    IN  IF data.err # Nil THEN SRet(NoValue, data.err, NoDispatch, <<>>)
        ELSE SRet(NoValue, reply.err, sent, <<>>)

(***************************************************************************)
(* ValidationAuthorityClient                                               *)
(***************************************************************************)
\* VAClient_UpdateValidations ending in "return err": the error of
\* DispatchSync is returned
VAClient_UpdateValidations_ReturnErr(authz, index, merr, reply) ==
    LET data == JsonMarshal([Authz |-> authz, Index |-> index], vaReqShape, merr)
        sent == Dispatch(MethodUpdateValidations, data.val)
    IN  IF data.err # Nil THEN SRet(NoValue, data.err, NoDispatch, <<>>)
        ELSE SRet(NoValue, reply.err, sent, <<>>)

\* "_, err = vac.rpc.DispatchSync(...); return nil"
VAClient_UpdateValidations(authz, index, merr, reply) ==
    LET data == JsonMarshal([Authz |-> authz, Index |-> index], vaReqShape, merr)
        sent == Dispatch(MethodUpdateValidations, data.val)
    IN  IF data.err # Nil THEN SRet(NoValue, data.err, NoDispatch, <<>>)
        ELSE SRet(NoValue, Nil, sent, <<>>)

(***************************************************************************)
(* CertificateAuthorityClient                                              *)
(***************************************************************************)
\* CAClient_IssueCertificate without its own check of the empty response:
\* an empty reply is returned as it came, like a reply with an error
CAClient_IssueCertificate_NoEmptyCheck(csr, regID, earliestExpiry, merr, reply) ==
    LET data == JsonMarshal([Bytes |-> csr.Raw, RegID |-> regID,
                             EarliestExpiry |-> ZeroTime], icReqShape, Nil)
        sent == Dispatch(MethodIssueCertificate, data.val)
        u == JsonUnmarshal(reply.resp, CertificateShape)
    IN  IF data.err # Nil THEN SRet(ZeroCert, data.err, NoDispatch, <<>>)
        ELSE IF reply.err # Nil \/ IsEmpty(reply.resp)
        THEN SRet(ZeroCert, reply.err, sent, <<>>)
        ELSE SRet(u.val, u.err, sent, <<>>)

\* icReq.Bytes and icReq.RegID are set; icReq.EarliestExpiry is never
\* assigned and keeps the zero time
CAClient_IssueCertificate(csr, regID, earliestExpiry, merr, reply) ==
    LET data == JsonMarshal([Bytes |-> csr.Raw, RegID |-> regID,
                             EarliestExpiry |-> ZeroTime], icReqShape, Nil)
        sent == Dispatch(MethodIssueCertificate, data.val)
        u == JsonUnmarshal(reply.resp, CertificateShape)
    IN  IF data.err # Nil THEN SRet(ZeroCert, data.err, NoDispatch, <<>>)
        ELSE IF reply.err # Nil THEN SRet(ZeroCert, reply.err, sent, <<>>)
        ELSE IF IsEmpty(reply.resp)
        THEN SRet(ZeroCert, ErrorsNew(<<"IssueCertificate", "RPC to CA failed.">>),
                  sent, <<>>)
        ELSE SRet(u.val, u.err, sent, <<>>)

CAClient_RevokeCertificate(serial, reasonCode, merr, reply) ==
    LET revokeReq == [Serial |-> serial, ReasonCode |-> reasonCode]
        data == JsonMarshal(revokeReq, revokeReqShape, Nil)
        sent == Dispatch(MethodRevokeCertificate, data.val)
    IN  IF data.err # Nil
        THEN SRet(NoValue, data.err, NoDispatch,
                  <<errorCondition(MethodRevokeCertificate, data.err,
                                   DecodedObj(revokeReq))>>)
        ELSE SRet(NoValue, reply.err, sent, <<>>)

\* CAClient_GenerateOCSP dispatching the name its audit call passes,
\* MethodGetRegistration, which the CA does not register
CAClient_GenerateOCSP_WrongName(signRequest, merr, reply) ==
    LET data == JsonMarshal(signRequest, OCSPSigningRequestShape, merr)
        sent == Dispatch(MethodGetRegistration, data.val)
    IN  IF data.err # Nil
        THEN SRet(Empty, data.err, NoDispatch,
                  <<errorCondition(MethodGetRegistration, data.err,
                                   DecodedObj(signRequest))>>)
        ELSE SRet(reply.resp, reply.err, sent, <<>>)

CAClient_GenerateOCSP(signRequest, merr, reply) ==
    LET data == JsonMarshal(signRequest, OCSPSigningRequestShape, merr)
        sent == Dispatch(MethodGenerateOCSP, data.val)
    IN  IF data.err # Nil
        THEN SRet(Empty, data.err, NoDispatch,
                  <<errorCondition(MethodGetRegistration, data.err,
                                   DecodedObj(signRequest))>>)
        ELSE SRet(reply.resp, reply.err, sent, <<>>)

(***************************************************************************)
(* StorageAuthorityClient                                                  *)
(***************************************************************************)
SAClient_GetRegistration(id, merr, reply) ==
    LET data == JsonMarshal([ID |-> id], intReqShape, Nil)
        sent == Dispatch(MethodGetRegistration, data.val)
        u == JsonUnmarshal(reply.resp, RegistrationShape)
    IN  IF data.err # Nil THEN SRet(ZeroReg, data.err, NoDispatch, <<>>)
        ELSE IF reply.err # Nil
        THEN SRet(ZeroReg, reply.err, sent, <<>>)
        ELSE SRet(u.val, u.err, sent, <<>>)

\* the request is key.MarshalJSON()
SAClient_GetRegistrationByKey(key, merr, reply) ==
    LET jsonKey == JsonMarshal(key, KeyShape, merr)
        sent == Dispatch(MethodGetRegistrationByKey, jsonKey.val)
        u == JsonUnmarshal(reply.resp, RegistrationShape)
    IN  IF jsonKey.err # Nil THEN SRet(ZeroReg, jsonKey.err, NoDispatch, <<>>)
        ELSE IF reply.err # Nil THEN SRet(ZeroReg, reply.err, sent, <<>>)
        ELSE SRet(u.val, u.err, sent, <<>>)

\* the request is []byte(id)
SAClient_GetAuthorization(id, merr, reply) ==
    LET sent == Dispatch(MethodGetAuthorization, id)
        u == JsonUnmarshal(reply.resp, AuthorizationShape)
    IN  IF reply.err # Nil THEN SRet(ZeroAuthz, reply.err, sent, <<>>)
        ELSE SRet(u.val, u.err, sent, <<>>)

SAClient_GetCertificate(id, merr, reply) ==
    SRet(reply.resp, reply.err, Dispatch(MethodGetCertificate, id), <<>>)

SAClient_GetCertificateByShortSerial(id, merr, reply) ==
    SRet(reply.resp, reply.err, Dispatch(MethodGetCertificateByShortSerial, id), <<>>)

SAClient_GetCertificateStatus(id, merr, reply) ==
    LET sent == Dispatch(MethodGetCertificateStatus, id)
        u == JsonUnmarshal(reply.resp, CertificateStatusShape)
    IN  IF reply.err # Nil THEN SRet(ZeroStatus, reply.err, sent, <<>>)
        ELSE SRet(u.val, u.err, sent, <<>>)

SAClient_MarkCertificateRevoked(serial, ocspResponse, reasonCode, merr, reply) ==
    LET data == JsonMarshal([Serial |-> serial, OCSPResponse |-> ocspResponse,
                             ReasonCode |-> reasonCode], markRevokedReqShape, Nil)
        sent == Dispatch(MethodMarkCertificateRevoked, data.val)
    IN  IF data.err # Nil THEN SRet(NoValue, data.err, NoDispatch, <<>>)
        ELSE SRet(NoValue, reply.err, sent, <<>>)

SAClient_UpdateRegistration(reg, merr, reply) ==
    LET data == JsonMarshal(reg, RegistrationShape, merr)
        sent == Dispatch(MethodUpdateRegistration, data.val)
    IN  IF data.err # Nil THEN SRet(NoValue, data.err, NoDispatch, <<>>)
        ELSE SRet(NoValue, reply.err, sent, <<>>)

SAClient_NewRegistration(reg, merr, reply) ==
    LET jsonReg == JsonMarshal(reg, RegistrationShape, merr)
        sent == Dispatch(MethodNewRegistration, jsonReg.val)
        u == JsonUnmarshal(reply.resp, RegistrationShape)
    IN  IF jsonReg.err # Nil
        THEN SRet(ZeroReg, ErrorsNew(<<"NewRegistration", "RPC failed">>),
                  NoDispatch, <<>>)
        ELSE IF reply.err # Nil \/ IsEmpty(reply.resp)
        THEN SRet(ZeroReg, ErrorsNew(<<"NewRegistration", "RPC failed">>), sent, <<>>)
        ELSE IF u.err # Nil
        THEN SRet(u.val, ErrorsNew(<<"NewRegistration", "RPC failed">>), sent, <<>>)
        ELSE SRet(u.val, Nil, sent, <<>>)

SAClient_NewPendingAuthorization(authz, merr, reply) ==
    LET jsonAuthz == JsonMarshal(authz, AuthorizationShape, merr)
        sent == Dispatch(MethodNewPendingAuthorization, jsonAuthz.val)
        u == JsonUnmarshal(reply.resp, AuthorizationShape)
    IN  IF jsonAuthz.err # Nil THEN SRet(ZeroAuthz, jsonAuthz.err, NoDispatch, <<>>)
        ELSE IF reply.err # Nil \/ IsEmpty(reply.resp)
        THEN SRet(ZeroAuthz, ErrorsNew(<<"NewPendingAuthorization", "RPC failed">>),
                  sent, <<>>)
        ELSE IF u.err # Nil
        THEN SRet(u.val, ErrorsNew(<<"NewRegistration", "RPC failed">>), sent, <<>>)
        ELSE SRet(u.val, Nil, sent, <<>>)

SAClient_UpdatePendingAuthorization(authz, merr, reply) ==
    LET data == JsonMarshal(authz, AuthorizationShape, merr)
        sent == Dispatch(MethodUpdatePendingAuthorization, data.val)
    IN  IF data.err # Nil THEN SRet(NoValue, data.err, NoDispatch, <<>>)
        ELSE SRet(NoValue, reply.err, sent, <<>>)

SAClient_FinalizeAuthorization(authz, merr, reply) ==
    LET data == JsonMarshal(authz, AuthorizationShape, merr)
        sent == Dispatch(MethodFinalizeAuthorization, data.val)
    IN  IF data.err # Nil THEN SRet(NoValue, data.err, NoDispatch, <<>>)
        ELSE SRet(NoValue, reply.err, sent, <<>>)

\* "id = string(response)": the bytes of the response
SAClient_AddCertificate(cert, regID, merr, reply) ==
    LET data == JsonMarshal([Bytes |-> cert, RegID |-> regID], addCertReqShape, Nil)
        sent == Dispatch(MethodAddCertificate, data.val)
    IN  IF data.err # Nil THEN SRet(Empty, data.err, NoDispatch, <<>>)
        ELSE IF reply.err # Nil \/ IsEmpty(reply.resp)
        THEN SRet(Empty, ErrorsNew(<<"AddCertificate", "RPC failed">>), sent, <<>>)
        ELSE SRet(reply.resp, Nil, sent, <<>>)

\* response[0]: the first byte of a JSON text is "{"
FirstByte(b) == IF b.kind = "raw" THEN b.bytes[1] ELSE 123

\* "switch response[0] { case 0: exists = false; case 1: exists = true }":
\* no default case, exists keeps its zero value for every other byte
SAClient_AlreadyDeniedCSR(names, merr, reply) ==
    LET data == JsonMarshal([Names |-> names], csrReqShape, Nil)
        sent == Dispatch(MethodAlreadyDeniedCSR, data.val)
    IN  IF data.err # Nil THEN SRet(FALSE, data.err, NoDispatch, <<>>)
        ELSE IF reply.err # Nil \/ IsEmpty(reply.resp)
        THEN SRet(FALSE, ErrorsNew(<<"AlreadyDeniedCSR", "RPC failed">>), sent, <<>>)
        ELSE IF FirstByte(reply.resp) = 0 THEN SRet(FALSE, Nil, sent, <<>>)
        ELSE IF FirstByte(reply.resp) = 1 THEN SRet(TRUE, Nil, sent, <<>>)
        ELSE SRet(FALSE, Nil, sent, <<>>)

\* DER contents and OCSP responses handed over as []byte
DerBlobs == {<<DerTag, 1>>, <<DerTag, 2>>}
OCSPBlobs == {<<>>, <<7>>}

(***************************************************************************)
(* The four roles.  Registered(role) is the set of names under which the   *)
(* role's New...Server function calls rpc.Handle, and Handler the function *)
(* it registers under the name.                                            *)
(***************************************************************************)
Roles == {"RA", "VA", "CA", "SA"}

Registered(role) ==
    CASE role = "RA" -> 
           {MethodNewRegistration, MethodNewAuthorization, MethodNewCertificate, MethodUpdateRegistration,
            MethodUpdateAuthorization, MethodRevokeCertificate, MethodOnValidationUpdate}
      [] role = "VA" -> 
           {MethodUpdateValidations}
      [] role = "CA" -> 
           {MethodIssueCertificate, MethodRevokeCertificate, MethodGenerateOCSP}
      [] role = "SA" -> 
           {MethodUpdateRegistration, MethodGetRegistration, MethodGetRegistrationByKey,
            MethodGetAuthorization, MethodAddCertificate, MethodNewRegistration, MethodNewPendingAuthorization,
            MethodUpdatePendingAuthorization, MethodFinalizeAuthorization, MethodGetCertificate, MethodGetCertificateByShortSerial,
            MethodGetCertificateStatus, MethodMarkCertificateRevoked, MethodAlreadyDeniedCSR}
      [] OTHER -> {}

\* the methods of the role's ...Client type, each under the name of the
\* operation it stands for
StubMethods(role) ==
    CASE role = "RA" ->
           {MethodNewRegistration, MethodNewAuthorization, MethodNewCertificate,
            MethodUpdateRegistration, MethodUpdateAuthorization,
            MethodRevokeCertificate, MethodOnValidationUpdate}
      [] role = "VA" ->
           {MethodUpdateValidations}
      [] role = "CA" ->
           {MethodIssueCertificate, MethodRevokeCertificate, MethodGenerateOCSP}
      [] role = "SA" ->
           {MethodGetRegistration, MethodGetRegistrationByKey, MethodGetAuthorization,
            MethodGetCertificate, MethodGetCertificateByShortSerial,
            MethodGetCertificateStatus, MethodMarkCertificateRevoked,
            MethodUpdateRegistration, MethodNewRegistration,
            MethodNewPendingAuthorization, MethodUpdatePendingAuthorization,
            MethodFinalizeAuthorization, MethodAddCertificate, MethodAlreadyDeniedCSR}
      [] OTHER -> {}

NoRun == HRet("none", Empty, Nil, <<>>, <<>>, <<>>)

Handler(role, method, req, d) ==
    CASE role = "RA" /\ method = MethodNewRegistration -> RAServer_NewRegistration(req, d)
      [] role = "RA" /\ method = MethodNewAuthorization -> RAServer_NewAuthorization(req, d)
      [] role = "RA" /\ method = MethodNewCertificate -> RAServer_NewCertificate(req, d)
      [] role = "RA" /\ method = MethodUpdateRegistration -> RAServer_UpdateRegistration(req, d)
      [] role = "RA" /\ method = MethodUpdateAuthorization -> RAServer_UpdateAuthorization(req, d)
      [] role = "RA" /\ method = MethodRevokeCertificate -> RAServer_RevokeCertificate(req, d)
      [] role = "RA" /\ method = MethodOnValidationUpdate -> RAServer_OnValidationUpdate(req, d)
      [] role = "VA" /\ method = MethodUpdateValidations -> VAServer_UpdateValidations(req, d)
      [] role = "CA" /\ method = MethodIssueCertificate -> CAServer_IssueCertificate(req, d)
      [] role = "CA" /\ method = MethodRevokeCertificate -> CAServer_RevokeCertificate(req, d)
      [] role = "CA" /\ method = MethodGenerateOCSP -> CAServer_GenerateOCSP(req, d)
      [] role = "SA" /\ method = MethodUpdateRegistration -> SAServer_UpdateRegistration(req, d)
      [] role = "SA" /\ method = MethodGetRegistration -> SAServer_GetRegistration(req, d)
      [] role = "SA" /\ method = MethodGetRegistrationByKey -> SAServer_GetRegistrationByKey(req, d)
      [] role = "SA" /\ method = MethodGetAuthorization -> SAServer_GetAuthorization(req, d)
      [] role = "SA" /\ method = MethodAddCertificate -> SAServer_AddCertificate(req, d)
      [] role = "SA" /\ method = MethodNewRegistration -> SAServer_NewRegistration(req, d)
      [] role = "SA" /\ method = MethodNewPendingAuthorization -> SAServer_NewPendingAuthorization(req, d)
      [] role = "SA" /\ method = MethodUpdatePendingAuthorization -> SAServer_UpdatePendingAuthorization(req, d)
      [] role = "SA" /\ method = MethodFinalizeAuthorization -> SAServer_FinalizeAuthorization(req, d)
      [] role = "SA" /\ method = MethodGetCertificate -> SAServer_GetCertificate(req, d)
      [] role = "SA" /\ method = MethodGetCertificateByShortSerial -> SAServer_GetCertificateByShortSerial(req, d)
      [] role = "SA" /\ method = MethodGetCertificateStatus -> SAServer_GetCertificateStatus(req, d)
      [] role = "SA" /\ method = MethodMarkCertificateRevoked -> SAServer_MarkCertificateRevoked(req, d)
      [] role = "SA" /\ method = MethodAlreadyDeniedCSR -> SAServer_AlreadyDeniedCSR(req, d)
      [] OTHER -> NoRun

(***************************************************************************)
(* The stub methods by role and name, the arguments the model calls them   *)
(* with, and what the domain implementation may return: any value of the   *)
(* result type, with or without an error.                                  *)
(***************************************************************************)
Stub(role, method, a, merr, reply) ==
    CASE role = "RA" /\ method = MethodNewRegistration -> RAClient_NewRegistration(a.reg, merr, reply)
      [] role = "RA" /\ method = MethodNewAuthorization -> RAClient_NewAuthorization(a.authz, a.regID, merr, reply)
      [] role = "RA" /\ method = MethodNewCertificate -> RAClient_NewCertificate(a.req, a.regID, merr, reply)
      [] role = "RA" /\ method = MethodUpdateRegistration -> RAClient_UpdateRegistration(a.base, a.update, merr, reply)
      [] role = "RA" /\ method = MethodUpdateAuthorization -> RAClient_UpdateAuthorization(a.authz, a.index, a.response,
                                        merr, reply)
      [] role = "RA" /\ method = MethodRevokeCertificate -> RAClient_RevokeCertificate(a.cert, merr, reply)
      [] role = "RA" /\ method = MethodOnValidationUpdate -> RAClient_OnValidationUpdate(a.authz, merr, reply)
      [] role = "VA" /\ method = MethodUpdateValidations -> VAClient_UpdateValidations(a.authz, a.index, merr, reply)
      [] role = "CA" /\ method = MethodIssueCertificate -> CAClient_IssueCertificate(a.csr, a.regID, a.earliestExpiry,
                                     merr, reply)
      [] role = "CA" /\ method = MethodRevokeCertificate -> CAClient_RevokeCertificate(a.serial, a.reasonCode, merr, reply)
      [] role = "CA" /\ method = MethodGenerateOCSP -> CAClient_GenerateOCSP(a.signRequest, merr, reply)
      [] role = "SA" /\ method = MethodUpdateRegistration -> SAClient_UpdateRegistration(a.reg, merr, reply)
      [] role = "SA" /\ method = MethodGetRegistration -> SAClient_GetRegistration(a.id, merr, reply)
      [] role = "SA" /\ method = MethodGetRegistrationByKey -> SAClient_GetRegistrationByKey(a.key, merr, reply)
      [] role = "SA" /\ method = MethodGetAuthorization -> SAClient_GetAuthorization(a.id, merr, reply)
      [] role = "SA" /\ method = MethodAddCertificate -> SAClient_AddCertificate(a.cert, a.regID, merr, reply)
      [] role = "SA" /\ method = MethodNewRegistration -> SAClient_NewRegistration(a.reg, merr, reply)
      [] role = "SA" /\ method = MethodNewPendingAuthorization -> SAClient_NewPendingAuthorization(a.authz, merr, reply)
      [] role = "SA" /\ method = MethodUpdatePendingAuthorization -> SAClient_UpdatePendingAuthorization(a.authz, merr, reply)
      [] role = "SA" /\ method = MethodFinalizeAuthorization -> SAClient_FinalizeAuthorization(a.authz, merr, reply)
      [] role = "SA" /\ method = MethodGetCertificate -> SAClient_GetCertificate(a.id, merr, reply)
      [] role = "SA" /\ method = MethodGetCertificateByShortSerial -> SAClient_GetCertificateByShortSerial(a.id, merr, reply)
      [] role = "SA" /\ method = MethodGetCertificateStatus -> SAClient_GetCertificateStatus(a.id, merr, reply)
      [] role = "SA" /\ method = MethodMarkCertificateRevoked -> SAClient_MarkCertificateRevoked(a.serial, a.ocspResponse,
                                           a.reasonCode, merr, reply)
      [] role = "SA" /\ method = MethodAlreadyDeniedCSR -> SAClient_AlreadyDeniedCSR(a.names, merr, reply)
      [] OTHER -> SRet(NoValue, Nil, NoDispatch, <<>>)

StubArgs(role, method) ==
    CASE role = "RA" /\ method = MethodNewRegistration -> [reg : Regs]
      [] role = "RA" /\ method = MethodNewAuthorization -> [authz : Authzs, regID : RegIDs]
      [] role = "RA" /\ method = MethodNewCertificate -> [req : CertReqs, regID : RegIDs]
      [] role = "RA" /\ method = MethodUpdateRegistration -> [base : Regs, update : Regs]
      [] role = "RA" /\ method = MethodUpdateAuthorization -> [authz : Authzs, index : Indexes, response : Chals]
      [] role = "RA" /\ method = MethodRevokeCertificate -> [cert : X509Certs]
      [] role = "RA" /\ method = MethodOnValidationUpdate -> [authz : Authzs]
      [] role = "VA" /\ method = MethodUpdateValidations -> [authz : Authzs, index : Indexes]
      [] role = "CA" /\ method = MethodIssueCertificate -> [csr : X509CSRs \cup {ZeroCSR}, regID : RegIDs, earliestExpiry : Times]
      [] role = "CA" /\ method = MethodRevokeCertificate -> [serial : Serials, reasonCode : ReasonCodes]
      [] role = "CA" /\ method = MethodGenerateOCSP -> [signRequest : OCSPReqs]
      [] role = "SA" /\ method = MethodUpdateRegistration -> [reg : Regs]
      [] role = "SA" /\ method = MethodGetRegistration -> [id : RegIDs]
      [] role = "SA" /\ method = MethodGetRegistrationByKey -> [key : Keys]
      [] role = "SA" /\ method = MethodGetAuthorization -> [id : RawIDs]
      [] role = "SA" /\ method = MethodAddCertificate -> [cert : DerBlobs, regID : RegIDs]
      [] role = "SA" /\ method = MethodNewRegistration -> [reg : Regs]
      [] role = "SA" /\ method = MethodNewPendingAuthorization -> [authz : Authzs]
      [] role = "SA" /\ method = MethodUpdatePendingAuthorization -> [authz : Authzs]
      [] role = "SA" /\ method = MethodFinalizeAuthorization -> [authz : Authzs]
      [] role = "SA" /\ method = MethodGetCertificate -> [id : RawIDs]
      [] role = "SA" /\ method = MethodGetCertificateByShortSerial -> [id : RawIDs]
      [] role = "SA" /\ method = MethodGetCertificateStatus -> [id : RawIDs]
      [] role = "SA" /\ method = MethodMarkCertificateRevoked -> [serial : Serials, ocspResponse : OCSPBlobs, reasonCode : ReasonCodes]
      [] role = "SA" /\ method = MethodAlreadyDeniedCSR -> [names : NameLists]
      [] OTHER -> {}

DomainVals(role, method) ==
    CASE role = "RA" /\ method = MethodNewRegistration -> {ZeroReg} \cup Regs
      [] role = "RA" /\ method = MethodNewAuthorization -> {ZeroAuthz} \cup Authzs
      [] role = "RA" /\ method = MethodNewCertificate -> {ZeroCert} \cup CoreCerts
      [] role = "RA" /\ method = MethodUpdateRegistration -> {ZeroReg} \cup Regs
      [] role = "RA" /\ method = MethodUpdateAuthorization -> {ZeroAuthz} \cup Authzs
      [] role = "RA" /\ method = MethodRevokeCertificate -> {NoValue}
      [] role = "RA" /\ method = MethodOnValidationUpdate -> {NoValue}
      [] role = "VA" /\ method = MethodUpdateValidations -> {NoValue}
      [] role = "CA" /\ method = MethodIssueCertificate -> {ZeroCert} \cup CoreCerts
      [] role = "CA" /\ method = MethodRevokeCertificate -> {NoValue}
      [] role = "CA" /\ method = MethodGenerateOCSP -> RawBlobs
      [] role = "SA" /\ method = MethodUpdateRegistration -> {NoValue}
      [] role = "SA" /\ method = MethodGetRegistration -> {ZeroReg} \cup Regs
      [] role = "SA" /\ method = MethodGetRegistrationByKey -> {ZeroReg} \cup Regs
      [] role = "SA" /\ method = MethodGetAuthorization -> {ZeroAuthz} \cup Authzs
      [] role = "SA" /\ method = MethodAddCertificate -> {Empty} \cup RawIDs
      [] role = "SA" /\ method = MethodNewRegistration -> {ZeroReg} \cup Regs
      [] role = "SA" /\ method = MethodNewPendingAuthorization -> {ZeroAuthz} \cup Authzs
      [] role = "SA" /\ method = MethodUpdatePendingAuthorization -> {NoValue}
      [] role = "SA" /\ method = MethodFinalizeAuthorization -> {NoValue}
      [] role = "SA" /\ method = MethodGetCertificate -> RawBlobs
      [] role = "SA" /\ method = MethodGetCertificateByShortSerial -> RawBlobs
      [] role = "SA" /\ method = MethodGetCertificateStatus -> {ZeroStatus} \cup Statuses
      [] role = "SA" /\ method = MethodMarkCertificateRevoked -> {NoValue}
      [] role = "SA" /\ method = MethodAlreadyDeniedCSR -> BOOLEAN
      [] OTHER -> {NoValue}

\* the handlers that json.Marshal the value the domain returned
MarshalsResult(role, method) ==
    \/ role = "RA" /\ method \in {MethodNewRegistration, MethodNewAuthorization, MethodNewCertificate, MethodUpdateRegistration, MethodUpdateAuthorization}
    \/ role = "CA" /\ method \in {MethodIssueCertificate}
    \/ role = "SA" /\ method \in {MethodGetRegistration, MethodGetRegistrationByKey, MethodGetAuthorization, MethodNewRegistration, MethodNewPendingAuthorization, MethodGetCertificateStatus}

DomainErrs == {Nil, DomainErr, ErrNoRows}

DomainResults(role, method) ==
    [val : DomainVals(role, method), err : DomainErrs,
     merr : IF MarshalsResult(role, method) THEN {Nil, JsonMarshalErr} ELSE {Nil}]

(***************************************************************************)
(* The transport (RPCServer.Handle, RPCClient.DispatchSync) and the        *)
(* messages that reach a handler from elsewhere than the stubs.            *)
(***************************************************************************)
TransportErr == <<"transport: connection failed">>
UnknownOperation == <<"UnknownOperation">>

\* a reply of DispatchSync: (response bytes, error)
Reply(resp, err) == [resp |-> resp, err |-> err]
NoReply == Reply(Empty, Nil)

\* error-free replies that no handler of the role need have produced
AnyReplies ==
    {Empty, Raw(<<0>>), Raw(<<1>>), Raw(<<2>>), Raw(<<255>>), Json(<<>>, <<>>)}

\* byte strings that are no JSON text
RawPayloads ==
    {Raw(bs) : bs \in {<<>>, <<0>>, <<1>>, <<2>>, <<255>>, <<97>>, <<DerTag>>,
                       <<DerTag, 1>>, <<DerTag, 1, DerTag, 2>>, <<DerTag, 1, 0>>}}

\* JSON texts no stub writes: "{}", members of the wrong type, and an
\* IssueCertificate envelope whose Bytes are not a DER request
OddPayloads ==
    {Json(<<>>, <<>>),
     Json([RegID |-> "one"], [RegID |-> "string"]),
     Json([ID |-> "a1", Names |-> 3], [ID |-> "string", Names |-> "number"]),
     Json([Serial |-> 7, Status |-> 7], [Serial |-> "number", Status |-> "number"]),
     Json([kty |-> "oct", n |-> "n1"], [kty |-> "string", n |-> "string"]),
     Json([Bytes |-> <<0>>, RegID |-> 1], [Bytes |-> "bytes", RegID |-> "number"])}

\* the requests the stubs of a role write
StubPayloads(role) ==
    UNION {{Stub(role, m, a, Nil, NoReply).dispatch.data : a \in StubArgs(role, m)} :
           m \in StubMethods(role)}

Payloads(role) == RawPayloads \cup OddPayloads \cup StubPayloads(role)

(***************************************************************************)
(* observer/probers/http: HTTPConf, the configuration of an HTTP prober.   *)
(* A Go string that is parsed (the URL) is the sequence of its bytes; the  *)
(* user agent, which is only compared and copied, is a TLA+ string.        *)
(***************************************************************************)
MaxUrlLen == 3
MaxRCodes == 2

\* the bytes URLs are made of: 'h', '1', ':', '/', and the control byte LF
UrlBytes == {104, 49, 58, 47, 10}
Urls == UNION {[1..k -> UrlBytes] : k \in 0..MaxUrlLen}
\* response codes around the two ends of the accepted range
RCodeValues == {99, 100, 200, 599, 600}
RCodeLists == UNION {[1..k -> RCodeValues] : k \in 0..MaxRCodes}
UserAgents == {"", "fancy-custom-http-client"}

\* type HTTPConf struct { URL string; RCodes []int; UserAgent string }
ZeroHTTPConf == [URL |-> <<>>, RCodes |-> <<>>, UserAgent |-> ""]
HTTPConfs == [URL : Urls, RCodes : RCodeLists, UserAgent : UserAgents]

\* strings.HasPrefix, strings.Contains for one byte, and the part of s
\* before the first byte b (all of s when b is not in it)
HasPrefix(s, prefix) ==
    Len(s) >= Len(prefix) /\ SubSeq(s, 1, Len(prefix)) = prefix
Contains(s, b) == \E i \in 1..Len(s) : s[i] = b
Before(s, b) ==
    IF Contains(s, b)
    THEN SubSeq(s, 1, (CHOOSE i \in 1..Len(s) :
                           s[i] = b /\ \A j \in 1..(i - 1) : s[j] # b) - 1)
    ELSE s

(***************************************************************************)
(* net/url.Parse, for strings without '#', '?', '%', '@' and '['.  The     *)
(* scheme is the run of letters, digits, '+', '-', '.' before the first    *)
(* ':', if the run starts with a letter; a ':' at the start is an error.   *)
(* Without a scheme, a ':' in the first path segment is an error.  After   *)
(* "//" comes the authority, whose port (after its last ':') must be       *)
(* digits.                                                                 *)
(***************************************************************************)
UrlCtlErr == <<"net/url: invalid control character in URL">>
UrlSchemeErr == <<"missing protocol scheme">>
UrlColonErr == <<"first path segment in URL cannot contain colon">>
UrlPortErr == <<"invalid port after host">>

ZeroURL == [Scheme |-> <<>>, Rest |-> <<>>]

RECURSIVE getScheme(_, _)
getScheme(rawURL, i) ==
    IF i > Len(rawURL) THEN [scheme |-> <<>>, rest |-> rawURL, err |-> Nil]
    ELSE LET c == rawURL[i] IN
         IF (97 <= c /\ c <= 122) \/ (65 <= c /\ c <= 90)
         THEN getScheme(rawURL, i + 1)
         ELSE IF (48 <= c /\ c <= 57) \/ c = 43 \/ c = 45 \/ c = 46
         THEN IF i = 1 THEN [scheme |-> <<>>, rest |-> rawURL, err |-> Nil]
              ELSE getScheme(rawURL, i + 1)
         ELSE IF c = 58
         THEN IF i = 1 THEN [scheme |-> <<>>, rest |-> <<>>, err |-> UrlSchemeErr]
              ELSE [scheme |-> SubSeq(rawURL, 1, i - 1),
                    rest |-> SubSeq(rawURL, i + 1, Len(rawURL)), err |-> Nil]
         ELSE [scheme |-> <<>>, rest |-> rawURL, err |-> Nil]

validOptionalPort(authority) ==
    \A i \in 1..Len(authority) :
        (authority[i] = 58 /\ \A j \in (i + 1)..Len(authority) : authority[j] # 58)
            => \A j \in (i + 1)..Len(authority) : 48 <= authority[j] /\ authority[j] <= 57

UrlParse(rawURL) ==
    LET g == getScheme(rawURL, 1)
        authority == Before(SubSeq(g.rest, 3, Len(g.rest)), 47)
    IN  IF \E i \in 1..Len(rawURL) : rawURL[i] < 32 \/ rawURL[i] = 127
        THEN Res(ZeroURL, UrlCtlErr)
        ELSE IF g.err # Nil THEN Res(ZeroURL, g.err)
        ELSE IF /\ ~HasPrefix(g.rest, <<47>>)
                /\ g.scheme = <<>>
                /\ Contains(Before(g.rest, 47), 58)
        THEN Res(ZeroURL, UrlColonErr)
        ELSE IF /\ HasPrefix(g.rest, <<47, 47>>)
                /\ (g.scheme # <<>> \/ ~HasPrefix(g.rest, <<47, 47, 47>>))
                /\ ~validOptionalPort(authority)
        THEN Res(ZeroURL, UrlPortErr)
        ELSE Res([Scheme |-> g.scheme, Rest |-> g.rest], Nil)

\* the settings handed to UnmarshalSettings: a YAML document with the
\* members url, rcodes and useragent (a member left out is the zero value),
\* or bytes yaml.Unmarshal rejects for an HTTPConf, such as "rcodes: 42"
YamlErr == <<"yaml: unmarshal errors">>
Yaml(doc) == [kind |-> "yaml", doc |-> doc]
BadYaml == [kind |-> "bad", doc |-> ZeroHTTPConf]
YamlUnmarshal(settings) ==
    IF settings.kind # "yaml" THEN Res(ZeroHTTPConf, YamlErr)
    ELSE Res(settings.doc, Nil)

\* func (c HTTPConf) UnmarshalSettings(settings []byte) (probers.Configurer, error)
HTTPConf_UnmarshalSettings(c, settings) ==
    LET conf == YamlUnmarshal(settings)
    IN  IF conf.err # Nil THEN Res(ZeroHTTPConf, conf.err)
        ELSE Res(conf.val, Nil)

HTTPConf_validateURL(c) ==
    LET url == UrlParse(c.URL)
    IN  IF url.err # Nil THEN <<"invalid 'url'", "expected a valid url">>
        ELSE IF url.val.Scheme = <<>> THEN <<"invalid 'url'", "missing scheme">>
        ELSE Nil

\* HTTPConf_validateRCodes with the range 101..598: the two ends refused
HTTPConf_validateRCodes_OpenRange(c) ==
    IF Len(c.RCodes) = 0
    THEN <<"invalid 'rcodes'", "please specify at least one">>
    ELSE IF \E i \in 1..Len(c.RCodes) : c.RCodes[i] <= 100 \/ c.RCodes[i] >= 599
    THEN <<"'rcodes' contains an invalid HTTP response code">>
    ELSE Nil

HTTPConf_validateRCodes(c) ==
    IF Len(c.RCodes) = 0
    THEN <<"invalid 'rcodes'", "please specify at least one">>
    ELSE IF \E i \in 1..Len(c.RCodes) : c.RCodes[i] < 100 \/ c.RCodes[i] > 599
    THEN <<"'rcodes' contains an invalid HTTP response code">>
    ELSE Nil

\* HTTPProbe{c.URL, c.RCodes, c.UserAgent}, and the nil Prober
HTTPProbe(url, rcodes, useragent) ==
    [nil |-> FALSE, url |-> url, rcodes |-> rcodes, useragent |-> useragent]
NilProber == [nil |-> TRUE, url |-> <<>>, rcodes |-> <<>>, useragent |-> ""]

DefaultUserAgent == "letsencrypt/boulder-observer-http-client"

\* what MakeProber returns, and c, the method's copy of its receiver, as
\* the method leaves it
PRet(val, err, c) == [val |-> val, err |-> err, c |-> c]

\* HTTPConf_MakeProber that copies the user agent as configured
HTTPConf_MakeProber_NoDefault(c, collectors) ==
    IF HTTPConf_validateURL(c) # Nil THEN PRet(NilProber, HTTPConf_validateURL(c), c)
    ELSE IF HTTPConf_validateRCodes(c) # Nil
    THEN PRet(NilProber, HTTPConf_validateRCodes(c), c)
    ELSE PRet(HTTPProbe(c.URL, c.RCodes, c.UserAgent), Nil, c)

\* func (c HTTPConf) MakeProber(_ map[string]*prometheus.Collector): the
\* collector map has no name and is not read
HTTPConf_MakeProber(c, collectors) ==
    LET c2 == IF c.UserAgent = "" THEN [c EXCEPT !.UserAgent = DefaultUserAgent] ELSE c
    IN  IF HTTPConf_validateURL(c) # Nil THEN PRet(NilProber, HTTPConf_validateURL(c), c)
        ELSE IF HTTPConf_validateRCodes(c) # Nil
        THEN PRet(NilProber, HTTPConf_validateRCodes(c), c)
        ELSE PRet(HTTPProbe(c2.URL, c2.RCodes, c2.UserAgent), Nil, c2)

\* func (c HTTPConf) Instrument() map[string]*prometheus.Collector: a map
\* is the set of its keys here
HTTPConf_Instrument(c) == {}

\* the settings and the collector maps a caller may hand over
Settings == {Yaml(doc) : doc \in HTTPConfs} \cup {BadYaml}
CollectorMaps(c) == {HTTPConf_Instrument(c), {"obs_http_foo"}}

(***************************************************************************)
(* The state.                                                              *)
(*   pc      where the one call in progress stands: "idle" (none),         *)
(*           "dispatch" (the stub is blocked in DispatchSync), "reply"     *)
(*           (DispatchSync has its reply), "done" (the call is over and    *)
(*           what it did can still be read)                                *)
(*   call    the stub call: role, method, arguments, and the error         *)
(*           json.Marshal meets on its request; or the message delivered   *)
(*           to a handler without a stub (from "wire")                     *)
(*   wire    the (method, payload) handed to DispatchSync                  *)
(*   inv     the handler invocation: role, method, request bytes and what  *)
(*           the domain implementation returns                             *)
(*   hres    what the handler did (HRet)                                   *)
(*   reply   what DispatchSync returns to the stub                         *)
(*   result  what the stub method did and returned (SRet)                  *)
(*   nCalls  calls begun; nInvoked, nFailed, nAudit: handler invocations,  *)
(*           those among them that failed, and the audit records the       *)
(*           handlers wrote, since the start                               *)
(*   hpc     where the configuration of the HTTP prober stands: "new",     *)
(*           "failed" (UnmarshalSettings returned an error), "configured", *)
(*           "made" (MakeProber has returned)                              *)
(*   conf    the HTTPConf the caller holds                                 *)
(*   colls   the collector map handed to MakeProber                        *)
(*   prober  what MakeProber returned (PRet)                               *)
(*   endpoint  what a bind function did to an RPCServer (BRet) and for     *)
(*             which role                                                  *)
(*   invs      the handler invocations in progress on the endpoint, each   *)
(*             with the payload it was handed and the result of its own    *)
(*             domain call                                                 *)
(*   frames    the local variables of the invocations' closures            *)
(***************************************************************************)
VARIABLES pc, call, wire, inv, hres, reply, result, nCalls, nInvoked, nFailed, nAudit,
          hpc, conf, colls, prober,
          endpoint, invs, frames

rpcVars == <<pc, call, wire, inv, hres, reply, result, nCalls, nInvoked, nFailed, nAudit>>
httpVars == <<hpc, conf, colls, prober>>
adapterVars == <<endpoint, invs, frames>>
vars == <<pc, call, wire, inv, hres, reply, result, nCalls, nInvoked, nFailed, nAudit,
          hpc, conf, colls, prober, endpoint, invs, frames>>

NoCall == [src |-> "none", role |-> "", method |-> "", args |-> <<>>, merr |-> Nil]
NoInv == [ran |-> FALSE, role |-> "", method |-> "", req |-> Empty,
          d |-> [val |-> NoValue, err |-> Nil, merr |-> Nil]]
NoResult == SRet(NoValue, Nil, NoDispatch, <<>>)
NoProber == PRet(NilProber, Nil, ZeroHTTPConf)

\* the handler invocations one endpoint can have in progress at a time
MaxInvocations == 2
Invocations == 1..MaxInvocations

Unbound == [role |-> "", handled |-> <<>>, calls |-> <<>>, err |-> Nil]
NoFrame == [req |-> Empty, d |-> [val |-> NoValue, err |-> Nil, merr |-> Nil]]
Free == [pc |-> "free", method |-> "", req |-> Empty,
         d |-> [val |-> NoValue, err |-> Nil, merr |-> Nil],
         out |-> NoRun, overlapped |-> FALSE]

Init ==
    /\ pc = "idle"
    /\ call = NoCall
    /\ wire = NoDispatch
    /\ inv = NoInv
    /\ hres = NoRun
    /\ reply = NoReply
    /\ result = NoResult
    /\ nCalls = 0
    /\ nInvoked = 0
    /\ nFailed = 0
    /\ nAudit = 0
    /\ hpc = "new"
    /\ conf = ZeroHTTPConf
    /\ colls = {}
    /\ prober = NoProber
    /\ endpoint = Unbound
    /\ invs = [i \in Invocations |-> Free]
    /\ frames = [i \in Invocations |-> NoFrame]

\* a handler invocation failed: it ended as an Improper Message or as an
\* Error Condition (sql.ErrNoRows in GetCertificateByShortSerial is neither)
Failed(h) == h.exit \in {"decode", "domain", "encode"}

\* the transport runs the handler registered under the name
RunHandler(role, method, req, d) ==
    LET h == Handler(role, method, req, d)
    IN  /\ inv' = [ran |-> TRUE, role |-> role, method |-> method, req |-> req, d |-> d]
        /\ hres' = h
        /\ nInvoked' = nInvoked + 1
        /\ nFailed' = IF Failed(h) THEN nFailed + 1 ELSE nFailed
        /\ nAudit' = nAudit + Len(h.audits)

\* a caller calls a stub method: the method runs up to DispatchSync, or
\* returns before it
Call ==
    /\ pc = "idle"
    /\ nCalls < MaxCalls
    /\ \E role \in Roles : \E method \in StubMethods(role) :
         \E a \in StubArgs(role, method) : \E merr \in {Nil, JsonMarshalErr} :
           LET s == Stub(role, method, a, merr, NoReply)
           IN  /\ call' = [src |-> "stub", role |-> role, method |-> method,
                           args |-> a, merr |-> merr]
               /\ IF s.dispatch = NoDispatch
                  THEN /\ pc' = "done"
                       /\ wire' = NoDispatch
                       /\ result' = s
                  ELSE /\ pc' = "dispatch"
                       /\ wire' = s.dispatch
                       /\ result' = NoResult
    /\ nCalls' = nCalls + 1
    /\ inv' = NoInv
    /\ hres' = NoRun
    /\ reply' = NoReply
    /\ UNCHANGED <<nInvoked, nFailed, nAudit>>
    /\ UNCHANGED httpVars
    /\ UNCHANGED adapterVars

\* DispatchSync delivers the request to the handler registered under its
\* name, once, and returns what the handler returned
Deliver ==
    /\ pc = "dispatch"
    /\ IF wire.method \in Registered(call.role)
       THEN \E d \in DomainResults(call.role, wire.method) :
              /\ RunHandler(call.role, wire.method, wire.data, d)
              /\ reply' = Reply(Handler(call.role, wire.method, wire.data, d).response,
                                Handler(call.role, wire.method, wire.data, d).err)
       ELSE /\ reply' = Reply(Empty, UnknownOperation)
            /\ UNCHANGED <<inv, hres, nInvoked, nFailed, nAudit>>
    /\ pc' = "reply"
    /\ UNCHANGED <<call, wire, result, nCalls>>
    /\ UNCHANGED httpVars
    /\ UNCHANGED adapterVars

\* DispatchSync fails: no handler runs
TransportFail ==
    /\ pc = "dispatch"
    /\ reply' = Reply(Empty, TransportErr)
    /\ pc' = "reply"
    /\ UNCHANGED <<call, wire, inv, hres, result, nCalls, nInvoked, nFailed, nAudit>>
    /\ UNCHANGED httpVars
    /\ UNCHANGED adapterVars

\* DispatchSync returns bytes and no error, whatever the handler meant
TransportReply ==
    /\ pc = "dispatch"
    /\ \E r \in AnyReplies : reply' = Reply(r, Nil)
    /\ pc' = "reply"
    /\ UNCHANGED <<call, wire, inv, hres, result, nCalls, nInvoked, nFailed, nAudit>>
    /\ UNCHANGED httpVars
    /\ UNCHANGED adapterVars

\* the stub method goes on after DispatchSync and returns to its caller
Return ==
    /\ pc = "reply"
    /\ result' = Stub(call.role, call.method, call.args, call.merr, reply)
    /\ pc' = "done"
    /\ UNCHANGED <<call, wire, inv, hres, reply, nCalls, nInvoked, nFailed, nAudit>>
    /\ UNCHANGED httpVars
    /\ UNCHANGED adapterVars

\* a message reaches a handler without one of the stubs having written it
Inject ==
    /\ pc = "idle"
    /\ nCalls < MaxCalls
    /\ \E role \in Roles : \E method \in Registered(role) :
         \E req \in Payloads(role) : \E d \in DomainResults(role, method) :
           /\ call' = [src |-> "wire", role |-> role, method |-> method,
                       args |-> <<>>, merr |-> Nil]
           /\ wire' = Dispatch(method, req)
           /\ RunHandler(role, method, req, d)
    /\ nCalls' = nCalls + 1
    /\ reply' = NoReply
    /\ result' = NoResult
    /\ pc' = "done"
    /\ UNCHANGED httpVars
    /\ UNCHANGED adapterVars

\* the caller has its answer: nothing of the call is kept but the counts
Forget ==
    /\ pc = "done"
    /\ pc' = "idle"
    /\ call' = NoCall
    /\ wire' = NoDispatch
    /\ inv' = NoInv
    /\ hres' = NoRun
    /\ reply' = NoReply
    /\ result' = NoResult
    /\ UNCHANGED <<nCalls, nInvoked, nFailed, nAudit>>
    /\ UNCHANGED httpVars
    /\ UNCHANGED adapterVars

Next ==
    \/ Call
    \/ Deliver
    \/ TransportFail
    \/ TransportReply
    \/ Return
    \/ Inject
    \/ Forget

Spec == Init /\ [][Next]_vars

(***************************************************************************)
(* The configuration of an HTTP prober: settings are unmarshalled into an  *)
(* HTTPConf, MakeProber is called on it with a collector map, and the      *)
(* outcome is dropped.  No RPC call is made meanwhile.                     *)
(***************************************************************************)
\* configurer, err := c.UnmarshalSettings(settings)
UnmarshalSettings ==
    /\ hpc = "new"
    /\ \E settings \in Settings :
         LET r == HTTPConf_UnmarshalSettings(conf, settings)
         IN  IF r.err # Nil
             THEN hpc' = "failed" /\ conf' = conf
             ELSE hpc' = "configured" /\ conf' = r.val
    /\ UNCHANGED <<colls, prober>>
    /\ UNCHANGED rpcVars
    /\ UNCHANGED adapterVars

\* prober, err := configurer.MakeProber(colls): the receiver is passed by
\* value, the caller's HTTPConf is not the one the method assigns to
MakeProber ==
    /\ hpc = "configured"
    /\ \E cs \in CollectorMaps(conf) :
         /\ colls' = cs
         /\ prober' = HTTPConf_MakeProber(conf, cs)
    /\ conf' = conf
    /\ hpc' = "made"
    /\ UNCHANGED rpcVars
    /\ UNCHANGED adapterVars

\* the caller drops the configuration and what came of it
Discard ==
    /\ hpc \in {"failed", "made"}
    /\ hpc' = "new"
    /\ conf' = ZeroHTTPConf
    /\ colls' = {}
    /\ prober' = NoProber
    /\ UNCHANGED rpcVars
    /\ UNCHANGED adapterVars

HttpNext ==
    \/ UnmarshalSettings
    \/ MakeProber
    \/ Discard

HttpSpec == Init /\ [][HttpNext]_vars

(***************************************************************************)
(* A service adapter: a bind function registers the handlers of a role on  *)
(* an RPCServer, and the transport invokes them, several at a time, each   *)
(* for one arriving message.  A handler decodes the request into           *)
(* variables of its own closure, calls the domain implementation, which    *)
(* may take any time, and encodes what it returned.                        *)
(***************************************************************************)
\* what a bind function did: the names it passed to rpc.Handle, in order,
\* the domain methods it called, and the error it returned
BRet(handled, calls, err) == [handled |-> handled, calls |-> calls, err |-> err]

NewRegistrationAuthorityServer ==
    BRet(<<MethodNewRegistration, MethodNewAuthorization, MethodNewCertificate,
           MethodUpdateRegistration, MethodUpdateAuthorization,
           MethodRevokeCertificate, MethodOnValidationUpdate>>, <<>>, Nil)

NewValidationAuthorityServer ==
    BRet(<<MethodUpdateValidations>>, <<>>, Nil)

NewCertificateAuthorityServer ==
    BRet(<<MethodIssueCertificate, MethodRevokeCertificate, MethodGenerateOCSP>>,
         <<>>, Nil)

\* NewStorageAuthorityServer passing MethodGetCertificate to rpc.Handle for
\* the status lookup too
NewStorageAuthorityServer_Overwrite ==
    BRet(<<MethodUpdateRegistration, MethodGetRegistration, MethodGetRegistrationByKey,
           MethodGetAuthorization, MethodAddCertificate, MethodNewRegistration,
           MethodNewPendingAuthorization, MethodUpdatePendingAuthorization,
           MethodFinalizeAuthorization, MethodGetCertificate,
           MethodGetCertificateByShortSerial, MethodGetCertificate,
           MethodMarkCertificateRevoked, MethodAlreadyDeniedCSR>>, <<>>, Nil)

NewStorageAuthorityServer ==
    BRet(<<MethodUpdateRegistration, MethodGetRegistration, MethodGetRegistrationByKey,
           MethodGetAuthorization, MethodAddCertificate, MethodNewRegistration,
           MethodNewPendingAuthorization, MethodUpdatePendingAuthorization,
           MethodFinalizeAuthorization, MethodGetCertificate,
           MethodGetCertificateByShortSerial, MethodGetCertificateStatus,
           MethodMarkCertificateRevoked, MethodAlreadyDeniedCSR>>, <<>>, Nil)

BindFunction(role) ==
    CASE role = "RA" -> NewRegistrationAuthorityServer
      [] role = "VA" -> NewValidationAuthorityServer
      [] role = "CA" -> NewCertificateAuthorityServer
      [] role = "SA" -> NewStorageAuthorityServer

\* the names the endpoint has a handler under
Handled == {endpoint.handled[k] : k \in 1..Len(endpoint.handled)}

\* one frame of locals for all invocations, as if the decode targets were
\* declared in the bind function and not in the closures
FrameOf_Shared(i) == 1

\* the locals an invocation works on: every closure declares its decode
\* target and its results itself, so each invocation has its own
FrameOf(i) == i

\* the messages that arrive for an operation: what its stub writes, and one
\* byte string that is no JSON text
AdapterPayloads(role, method) ==
    {Stub(role, method, a, Nil, NoReply).dispatch.data : a \in StubArgs(role, method)}
        \cup {Raw(<<0>>)}

\* what the domain method answers: one of its values and no error, or an
\* error
AdapterResults(role, method) ==
    {d \in DomainResults(role, method) :
        /\ d.merr = Nil
        /\ d.err \in {Nil, DomainErr}
        /\ d.err # Nil => d.val = CHOOSE v \in DomainVals(role, method) : TRUE}

\* a process binds its implementation to an RPCServer
Bind ==
    /\ endpoint = Unbound
    /\ \E role \in Roles :
         endpoint' = [role |-> role,
                      handled |-> BindFunction(role).handled,
                      calls |-> BindFunction(role).calls,
                      err |-> BindFunction(role).err]
    /\ UNCHANGED <<invs, frames>>
    /\ UNCHANGED rpcVars
    /\ UNCHANGED httpVars

\* a message arrives and the transport invokes the handler under its name:
\* the handler decodes the payload into its locals
Enter(i) ==
    /\ endpoint # Unbound
    /\ invs[i].pc = "free"
    /\ \E method \in Handled : \E req \in AdapterPayloads(endpoint.role, method) :
         /\ invs' = [invs EXCEPT ![i] = [Free EXCEPT !.pc = "entered",
                                                     !.method = method,
                                                     !.req = req]]
         /\ frames' = [frames EXCEPT ![FrameOf(i)] = [NoFrame EXCEPT !.req = req]]
    /\ UNCHANGED endpoint
    /\ UNCHANGED rpcVars
    /\ UNCHANGED httpVars

\* the domain method the handler called returns
CallDomain(i) ==
    /\ invs[i].pc = "entered"
    /\ \E d \in AdapterResults(endpoint.role, invs[i].method) :
         /\ invs' = [invs EXCEPT ![i].pc = "called", ![i].d = d]
         /\ frames' = [frames EXCEPT ![FrameOf(i)].d = d]
    /\ UNCHANGED endpoint
    /\ UNCHANGED rpcVars
    /\ UNCHANGED httpVars

\* the handler goes on with what its locals hold and returns
Finish(i) ==
    /\ invs[i].pc = "called"
    /\ invs' = [invs EXCEPT
                  ![i].pc = "returned",
                  ![i].out = Handler(endpoint.role, invs[i].method,
                                     frames[FrameOf(i)].req, frames[FrameOf(i)].d),
                  ![i].overlapped = \E j \in Invocations \ {i} :
                                        invs[j].pc \in {"entered", "called"}]
    /\ UNCHANGED <<endpoint, frames>>
    /\ UNCHANGED rpcVars
    /\ UNCHANGED httpVars

\* the transport has sent the reply: nothing of the invocation is kept
Release(i) ==
    /\ invs[i].pc = "returned"
    /\ invs' = [invs EXCEPT ![i] = Free]
    /\ frames' = [frames EXCEPT ![FrameOf(i)] = NoFrame]
    /\ UNCHANGED endpoint
    /\ UNCHANGED rpcVars
    /\ UNCHANGED httpVars

\* the process ends
Close ==
    /\ endpoint # Unbound
    /\ \A i \in Invocations : invs[i].pc = "free"
    /\ endpoint' = Unbound
    /\ UNCHANGED <<invs, frames>>
    /\ UNCHANGED rpcVars
    /\ UNCHANGED httpVars

AdapterNext ==
    \/ Bind
    \/ \E i \in Invocations : Enter(i)
    \/ \E i \in Invocations : CallDomain(i)
    \/ \E i \in Invocations : Finish(i)
    \/ \E i \in Invocations : Release(i)
    \/ Close

AdapterSpec == Init /\ [][AdapterNext]_vars

(***************************************************************************)
(* Properties.  A handler invocation can be read while inv.ran holds, a    *)
(* finished stub call while StubDone holds.                                *)
(***************************************************************************)
StubDone == pc = "done" /\ call.src = "stub"
\* the stub method made its DispatchSync call
Dispatched == result.dispatch # NoDispatch
\* the message of an error names an operation
Names(err, method) == \E i \in 1..Len(err) : err[i] = method
\* the domain implementation was invoked and returned an error
DomainRejected == inv.ran /\ Len(hres.calls) > 0 /\ inv.d.err # Nil

\* C1: whenever the domain implementation returns an error for a request
\* that decoded, the handler returns that same non-nil error to the
\* transport (for every handler of every role).
C1_DomainErrorReturned ==
    DomainRejected => (hres.err # Nil /\ hres.err = inv.d.err)

\* C2: a request that fails to decode is audited exactly through
\* improperMessage, never through errorCondition, and the domain
\* implementation is not invoked (for every handler of every role).
C2_DecodeFailureIsImproperMessage ==
    (inv.ran /\ hres.exit = "decode") =>
        /\ hres.calls = <<>>
        /\ Len(hres.audits) >= 1
        /\ \A i \in 1..Len(hres.audits) : hres.audits[i].kind = "Improper message"

\* C3: StorageAuthorityClient.AlreadyDeniedCSR maps an error-free one-byte
\* response to exists = FALSE for byte 0 and to exists = TRUE for every
\* other byte, with a nil error.
C3_BooleanByte ==
    (/\ StubDone
     /\ call.role = "SA" /\ call.method = MethodAlreadyDeniedCSR
     /\ reply.err = Nil
     /\ reply.resp.kind = "raw" /\ Len(reply.resp.bytes) = 1) =>
        /\ result.err = Nil
        /\ result.val = (reply.resp.bytes[1] # 0)

\* C4: request round trip: the arguments the domain implementation receives
\* from the handler equal the arguments the caller passed to the stub
\* method, field for field (for every operation of every role).
C4_RequestRoundTrip ==
    (pc \in {"reply", "done"} /\ call.src = "stub" /\ inv.ran /\ Len(hres.calls) > 0) =>
        /\ hres.calls[1].method = call.method
        /\ hres.calls[1].args = call.args

\* C5: when DispatchSync returns a non-nil error, the stub method returns
\* that same error value to its caller (for every stub method of every role).
C5_TransportErrorUnchanged ==
    (StubDone /\ Dispatched /\ reply.err # Nil) => result.err = reply.err

\* the four stub methods the empty-response property names
EmptyGuarded ==
    {<<"RA", MethodNewCertificate>>, <<"CA", MethodIssueCertificate>>,
     <<"SA", MethodAddCertificate>>, <<"SA", MethodAlreadyDeniedCSR>>}

\* DispatchSync returned no bytes and no error to the finished stub call
EmptySuccess == StubDone /\ Dispatched /\ reply.err = Nil /\ IsEmpty(reply.resp)

\* C6: empty-response property: RA NewCertificate, CA IssueCertificate, SA
\* AddCertificate and SA AlreadyDeniedCSR return a non-nil error that names
\* the operation called when DispatchSync returns a zero-length payload with
\* a nil error.
C6_EmptyResponseIsError ==
    (EmptySuccess /\ <<call.role, call.method>> \in EmptyGuarded) =>
        (result.err # Nil /\ Names(result.err, call.method))

\* C6 witness: an IssueCertificate call got an empty, error-free reply and
\* returned its own error
C6_Witness ==
    /\ EmptySuccess
    /\ call.role = "CA" /\ call.method = MethodIssueCertificate
    /\ result.err = <<"IssueCertificate", "RPC to CA failed.">>

\* the operations whose successful response is never empty: an encoded
\* Registration, Authorization, Certificate or CertificateStatus, a
\* certificate identifier, or the one byte of AlreadyDeniedCSR
AlwaysNonEmpty(role, method) ==
    \/ MarshalsResult(role, method)
    \/ role = "SA" /\ method \in {MethodAddCertificate, MethodAlreadyDeniedCSR}

\* C7: every stub method whose operation always produces a non-empty payload
\* on success returns a non-nil error for a zero-length, error-free reply of
\* DispatchSync.
C7_EveryEmptyResponseIsError ==
    (EmptySuccess /\ AlwaysNonEmpty(call.role, call.method)) => result.err # Nil

\* the handler wrote an Improper Message record
ImproperAudited ==
    \E i \in 1..Len(hres.audits) : hres.audits[i].kind = "Improper message"

\* C8: a handler that classifies a request as Improper Message returns a
\* non-nil error to the transport.
C8_ImproperMessageReturnsError ==
    (inv.ran /\ ImproperAudited) => hres.err # Nil

\* C9: audit cardinality: a handler invocation that ends as an Improper
\* Message or as an Error Condition writes exactly one audit record, every
\* other invocation (a success, or the not-found outcome of
\* GetCertificateByShortSerial) writes none; so the audit records written
\* since the start are as many as the failed invocations.
C9_AuditCardinality ==
    /\ inv.ran => Len(hres.audits) = (IF Failed(hres) THEN 1 ELSE 0)
    /\ nAudit = nFailed

\* C9 witness: of two invocations the first failed and wrote the one record,
\* the second succeeded and wrote none
C9_Witness ==
    /\ nInvoked = 2 /\ nFailed = 1 /\ nAudit = 1
    /\ inv.ran /\ hres.exit = "ok" /\ hres.audits = <<>>

\* C10: every audit record carries the name of the operation whose handler
\* or stub method wrote it.
C10_AuditNamesOperation ==
    /\ inv.ran => \A i \in 1..Len(hres.audits) : hres.audits[i].method = inv.method
    /\ StubDone => \A i \in 1..Len(result.audits) : result.audits[i].method = call.method

\* the finished stub call was delivered: the handler ran and DispatchSync
\* returned what the handler returned
Delivered == StubDone /\ inv.ran

\* the SA handler of GetCertificateByShortSerial ran and its domain method
\* returned an error
ShortSerialRejected ==
    /\ inv.ran
    /\ inv.role = "SA" /\ inv.method = MethodGetCertificateByShortSerial
    /\ inv.d.err # Nil

\* C11: not-found carve-out: when the domain GetCertificateByShortSerial
\* returns sql.ErrNoRows, the SA handler returns that error with an empty
\* response and writes no audit record (and the stub returns the error to its
\* caller); for every other domain error it writes exactly one Error
\* Condition record.
C11_NotFoundCarveOut ==
    ShortSerialRejected =>
        IF inv.d.err = ErrNoRows
        THEN /\ hres.err = ErrNoRows
             /\ IsEmpty(hres.response)
             /\ hres.audits = <<>>
             /\ Delivered => result.err = ErrNoRows
        ELSE /\ Len(hres.audits) = 1
             /\ hres.audits[1].kind = "Error condition"

\* C11 witness: a stub call met sql.ErrNoRows on a domain method that also
\* returned bytes; nothing was audited and the caller has the error
C11_Witness ==
    /\ ShortSerialRejected /\ Delivered
    /\ inv.d.err = ErrNoRows /\ ~IsEmpty(inv.d.val)
    /\ hres.audits = <<>> /\ result.err = ErrNoRows

\* the type a stub method decodes its response into with json.Unmarshal
ResponseShape(role, method) ==
    CASE role = "RA" /\ method \in {MethodNewRegistration, MethodUpdateRegistration}
           -> RegistrationShape
      [] role = "RA" /\ method \in {MethodNewAuthorization, MethodUpdateAuthorization}
           -> AuthorizationShape
      [] role = "RA" /\ method = MethodNewCertificate -> CertificateShape
      [] role = "CA" /\ method = MethodIssueCertificate -> CertificateShape
      [] role = "SA" /\ method \in {MethodGetRegistration, MethodGetRegistrationByKey,
                                    MethodNewRegistration}
           -> RegistrationShape
      [] role = "SA" /\ method \in {MethodGetAuthorization, MethodNewPendingAuthorization}
           -> AuthorizationShape
      [] role = "SA" /\ method = MethodGetCertificateStatus -> CertificateStatusShape
      [] OTHER -> Shape(<<>>, <<>>)

\* the response DispatchSync returned without an error is not a text of the
\* type the operation answers with
ResponseUndecodable ==
    /\ reply.err = Nil
    /\ MarshalsResult(call.role, call.method)
    /\ JsonUnmarshal(reply.resp, ResponseShape(call.role, call.method)).err # Nil

C13_UpdateValidationsReturnsNil ==
    (StubDone /\ Dispatched /\ call.role = "VA" /\ call.method = MethodUpdateValidations)
        => result.err = Nil

\* C13 witness: the VA handler answered with an error, DispatchSync returned
\* it, and the caller was told nothing
C13_Witness ==
    /\ Delivered /\ call.role = "VA" /\ call.method = MethodUpdateValidations
    /\ hres.err # Nil /\ reply.err = hres.err
    /\ result.err = Nil

\* the operations that answer with a value
HasResponse(role, method) ==
    \/ MarshalsResult(role, method)
    \/ role = "CA" /\ method = MethodGenerateOCSP
    \/ role = "SA" /\ method \in {MethodAddCertificate, MethodGetCertificate,
                                  MethodGetCertificateByShortSerial,
                                  MethodAlreadyDeniedCSR}

\* C14: response round trip: for every operation with a response, when
\* decode, domain call and encode all succeed in the handler and the
\* transport returns the handler's bytes unchanged, the value the stub method
\* returns equals the value the domain implementation returned.
C14_ResponseRoundTrip ==
    (Delivered /\ hres.exit = "ok" /\ HasResponse(call.role, call.method)) =>
        (reply.resp = hres.response => result.val = inv.d.val)

\* C14 witness: RA UpdateRegistration answered with a registration that is
\* neither the base nor the update sent, and the caller has it
C14_Witness ==
    /\ Delivered /\ hres.exit = "ok"
    /\ call.role = "RA" /\ call.method = MethodUpdateRegistration
    /\ call.args.base = call.args.update
    /\ inv.d.val \in Regs /\ inv.d.val # call.args.update
    /\ result.val = inv.d.val /\ result.err = Nil

\* C15: for each role, every operation name a stub method of the role passes
\* to DispatchSync is a name the role's adapter registers with Handle.
C15_StubNamesRegistered ==
    (call.src = "stub" /\ wire # NoDispatch) => wire.method \in Registered(call.role)

\* C15 witness: GenerateOCSP was dispatched under a name the CA registers
\* and the CA handler of that name ran
C15_Witness ==
    /\ Delivered /\ call.role = "CA" /\ call.method = MethodGenerateOCSP
    /\ wire.method = MethodGenerateOCSP /\ inv.method = MethodGenerateOCSP

\* the CA handler of IssueCertificate ran on an envelope that decodes and
\* whose Bytes are no DER certificate request
BadCsrIssued ==
    /\ inv.ran /\ inv.role = "CA" /\ inv.method = MethodIssueCertificate
    /\ JsonUnmarshal(inv.req, icReqShape).err = Nil
    /\ ParseCertificateRequest(JsonUnmarshal(inv.req, icReqShape).val.Bytes).err # Nil

\* C16: CA IssueCertificate on a well-formed envelope whose CSR bytes are
\* not valid DER: the handler writes exactly one audit record, of kind
\* Improper Message, never calls the domain IssueCertificate and returns a
\* non-nil error, which the CA stub method returns to its caller.
C16_InvalidCsrIsImproperMessage ==
    BadCsrIssued =>
        /\ Len(hres.audits) = 1
        /\ hres.audits[1].kind = "Improper message"
        /\ hres.calls = <<>>
        /\ hres.err # Nil
        /\ Delivered => (result.err # Nil /\ result.err = hres.err)

\* C16 witness: a caller passed a certificate request without DER bytes to
\* the CA stub and got the error of x509.ParseCertificateRequest
C16_Witness ==
    /\ BadCsrIssued /\ Delivered
    /\ call.args.csr = ZeroCSR
    /\ hres.calls = <<>> /\ result.err = X509Err

\* C20: no partial response: whenever a handler returns a non-nil error the
\* response bytes it returns are empty, whatever the domain implementation
\* returned with its error (for every handler of every role).
C20_NoPartialResponse ==
    (inv.ran /\ hres.err # Nil) => IsEmpty(hres.response)

\* the configuration is invalid: the URL does not parse or has no scheme,
\* there is no response code, or one is below 100 or above 599
ConfInvalid(c) ==
    \/ UrlParse(c.URL).err # Nil
    \/ UrlParse(c.URL).val.Scheme = <<>>
    \/ c.RCodes = <<>>
    \/ \E i \in 1..Len(c.RCodes) : c.RCodes[i] < 100 \/ c.RCodes[i] > 599

\* C17: HTTPConf.MakeProber returns an error exactly when the configuration
\* is invalid (the URL fails to parse or has an empty scheme, the rcodes
\* list is empty, or an rcode is below 100 or above 599); for a valid
\* configuration and the collectors of Instrument it returns a prober and no
\* error.
C17_MakeProberErrorIffInvalid ==
    hpc = "made" =>
        /\ (prober.err # Nil) <=> ConfInvalid(conf)
        /\ (prober.err # Nil) <=> prober.val.nil
        /\ (~ConfInvalid(conf) /\ colls = HTTPConf_Instrument(conf)) =>
               (prober.err = Nil /\ ~prober.val.nil)

\* C17 witness: a URL with a scheme and the two response codes at the ends
\* of the range made a prober
C17_Witness ==
    /\ hpc = "made"
    /\ conf.URL = <<104, 58, 47>> /\ conf.RCodes = <<100, 599>>
    /\ colls = HTTPConf_Instrument(conf)
    /\ prober.err = Nil /\ ~prober.val.nil

\* C18: HTTPConf.MakeProber returns an error when the collector map holds a
\* collector that HTTPConf.Instrument does not produce, even if the URL and
\* the rcodes are valid.
C18_UnexpectedCollectorRejected ==
    (hpc = "made" /\ colls \ HTTPConf_Instrument(conf) # {}) => prober.err # Nil

\* C19: HTTPConf.MakeProber on a valid configuration builds a prober whose
\* URL and rcodes are the configuration's and whose user agent is the
\* configured one when that is non-empty and the default otherwise; the
\* HTTPConf the caller holds is left unchanged.
C19_ProberFromConf ==
    [][(hpc = "configured" /\ hpc' = "made" /\ prober'.err = Nil) =>
          /\ prober'.val.url = conf.URL
          /\ prober'.val.rcodes = conf.RCodes
          /\ prober'.val.useragent =
                 (IF conf.UserAgent # "" THEN conf.UserAgent
                  ELSE "letsencrypt/boulder-observer-http-client")
          /\ conf' = conf]_vars

\* C19 witness: a configuration without a user agent made a prober with the
\* default one, and the configuration still has none
C19_Witness ==
    /\ hpc = "made" /\ prober.err = Nil
    /\ conf.UserAgent = ""
    /\ prober.val.useragent = "letsencrypt/boulder-observer-http-client"
    /\ prober.val.url = conf.URL /\ prober.val.rcodes = conf.RCodes

C22_StepOrdering ==
    /\ (inv.ran /\ call.src = "stub") => wire # NoDispatch
    /\ (inv.ran /\ hres.calls # <<>>) => (hres.exit # "decode" /\ ~ImproperAudited)
    /\ (inv.ran /\ hres.exit \in {"encode", "ok"}) =>
           (Len(hres.calls) = 1 /\ inv.d.err = Nil)
    /\ (StubDone /\ Dispatched /\ reply.err # Nil
            /\ MarshalsResult(call.role, call.method)) =>
           result.val = ResponseShape(call.role, call.method).zero

\* C22 witness: an RA NewAuthorization call went down and up the whole
\* ladder and the caller has the authorization of the domain method
C22_Witness ==
    /\ Delivered /\ call.role = "RA" /\ call.method = MethodNewAuthorization
    /\ hres.exit = "ok" /\ Len(hres.calls) = 1
    /\ inv.d.val \in Authzs
    /\ reply.err = Nil /\ result.err = Nil /\ result.val = inv.d.val

\* C24: the progress markers of the RA NewCertificate handler come in the
\* order entering, decoded, issued: "entering" in every invocation, "decoded"
\* only once the request decoded, "issued" only once the domain method
\* returned without an error; no other handler writes progress markers.
C24_ProgressMarkers ==
    inv.ran =>
        IF inv.role = "RA" /\ inv.method = MethodNewCertificate
        THEN hres.infos =
                 (IF hres.exit = "decode"
                  THEN <<" [.] Entering MethodNewCertificate">>
                  ELSE IF inv.d.err # Nil
                  THEN <<" [.] Entering MethodNewCertificate",
                         " [.] No problem unmarshaling request">>
                  ELSE <<" [.] Entering MethodNewCertificate",
                         " [.] No problem unmarshaling request",
                         " [.] No problem issuing new cert">>)
        ELSE hres.infos = <<>>

\* C24 witness: the domain method rejected a certificate request and the
\* handler had logged "entering" and "decoded"
C24_Witness ==
    /\ inv.ran /\ inv.role = "RA" /\ inv.method = MethodNewCertificate
    /\ hres.exit = "domain" /\ Len(hres.calls) = 1
    /\ hres.infos = <<InfoEntering, InfoDecoded>>

\* the SA operations whose request is an identifier as raw bytes
RawIdOps ==
    {MethodGetAuthorization, MethodGetCertificate,
     MethodGetCertificateByShortSerial, MethodGetCertificateStatus}

\* C25: every Error Condition record written after a domain rejection
\* carries the decoded request, not the raw input bytes and not the value the
\* domain method returned (for the handlers that decode their request).
C25_ErrorConditionCarriesDecodedRequest ==
    (/\ inv.ran /\ hres.exit = "domain"
     /\ ~(inv.role = "SA" /\ inv.method \in RawIdOps)) =>
        \A i \in 1..Len(hres.audits) :
            hres.audits[i].kind = "Error condition" =>
                hres.audits[i].data.form = "decoded"

\* C26: the SA handlers of GetAuthorization, GetCertificate,
\* GetCertificateByShortSerial and GetCertificateStatus have no decode step:
\* for every byte string, the empty one too, the handler calls the domain
\* method exactly once with that byte string as the identifier and writes no
\* Improper Message record.
C26_RawIdentifierHandlers ==
    (inv.ran /\ inv.role = "SA" /\ inv.method \in RawIdOps) =>
        /\ Len(hres.calls) = 1
        /\ hres.calls[1].args.id = inv.req
        /\ hres.exit # "decode"
        /\ ~ImproperAudited

\* C26 witness: GetCertificateStatus ran on the empty byte string and the
\* domain method was asked for the empty identifier
C26_Witness ==
    /\ inv.ran /\ inv.role = "SA" /\ inv.method = MethodGetCertificateStatus
    /\ IsEmpty(inv.req)
    /\ Len(hres.calls) = 1 /\ hres.calls[1].args.id = Empty

\* the error is one a stub method made with errors.New
MadeByStub(err) ==
    Len(err) = 2 /\ err[2] \in {"RPC failed", "RPC to RA failed.", "RPC to CA failed."}

\* C28: every failure error a stub method constructs itself names the
\* operation of the stub method that returns it, on every failure path.
C28_StubErrorNamesOperation ==
    (StubDone /\ MadeByStub(result.err)) => result.err[1] = call.method

C27_BindRegistersEachOnce ==
    endpoint # Unbound =>
        /\ \A k, l \in 1..Len(endpoint.handled) :
               endpoint.handled[k] = endpoint.handled[l] => k = l
        /\ Handled = StubMethods(endpoint.role)
        /\ Len(endpoint.handled) = Cardinality(StubMethods(endpoint.role))
        /\ endpoint.calls = <<>>
        /\ endpoint.err = Nil

\* C27 witness: NewStorageAuthorityServer has bound its fourteen handlers
C27_Witness ==
    /\ endpoint.role = "SA"
    /\ Len(endpoint.handled) = 14
    /\ MethodGetCertificateStatus \in Handled
    /\ endpoint.err = Nil

====
